---------------------------- MODULE Spec2Model ----------------------------
(***************************************************************************)
(* Request-processing pipeline of the IT support bot:                      *)
(*   - TokenBucketRateLimiter and LRUCache (api route module),             *)
(*   - answerIssue, the tool-calling orchestration loop (lib/llm.ts),      *)
(*   - the answer contract (lib/answerSchema.ts),                          *)
(*   - POST, the request handler composing them.                           *)
(*                                                                         *)
(* Time.  Date.now() is the variable now, counted in ticks; there are      *)
(* TicksPerMinute ticks in a minute.  Token amounts are exact rationals:   *)
(* a bucket's tokens field holds the number of 1/refillInterval-ths of a   *)
(* token (TokenUnit units make one token), so that                         *)
(* timePassed * refillRate = timePassed * maxTokens / refillInterval is    *)
(* the integer timePassed * maxTokens in these units.                      *)
(***************************************************************************)
EXTENDS Integers, Sequences, FiniteSets, TLC

VARIABLES
    now,            \* Date.now(), in ticks
    buckets,        \* TokenBucketRateLimiter.buckets : ip -> bucket | NoBucket
    consumeObs,     \* per ip: what the calls of consume returned (observation)
    cache,          \* LRUCache.cache : sequence of entries, oldest first
    cacheObs,       \* what the last LRUCache call returned (observation)
    orch,           \* the state of one call of answerIssue
    reqs,           \* the requests that POST is handling, by slot
    lastDone,       \* the last request that POST has answered (observation)
    missed,         \* per key: the MISS answers since it was cached (observation)
    fnObs           \* the last call of a pure helper: argument and result

rlVars == <<buckets, consumeObs>>
cacheVars == <<cache, cacheObs>>
postVars == <<reqs, lastDone, missed>>
vars == <<now, buckets, consumeObs, cache, cacheObs, orch, reqs, lastDone,
         missed, fnObs>>

Min(a, b) == IF a <= b THEN a ELSE b

---------------------------------------------------------------------------
(* Bounds of the model and constants of the program.                       *)

TicksPerMinute == 2         \* clock granularity: one tick is 30 s
ExtraTicks == 3             \* the clock runs to one refill window + ExtraTicks

maxTokens == 10             \* new TokenBucketRateLimiter(10, ...)
refillIntervalMinutes == 10 \* new TokenBucketRateLimiter(..., 10 * 60 * 1000)

refillInterval == refillIntervalMinutes * TicksPerMinute   \* in ticks
TokenUnit == refillInterval         \* units of the tokens field per token
MaxTime == refillInterval + ExtraTicks

(* The cache is built by new LRUCache(100, 6): 100 entries, 6 hours.  The    *)
(* model runs the same class with a small capacity and a short ttl.        *)
capacity == 2               \* LRUCache.capacity
ttl == 2                    \* LRUCache.ttl, in ticks
ExtraCacheTicks == 2        \* in SpecCache the clock runs to ttl + ExtraCacheTicks

Identities == {"ip1", "ip2"}
Callers == {"ip1"}          \* the identities that send requests
NoBucket == [tokens |-> -1, lastRefill |-> -1]  \* this.buckets.get(ip) === undefined

---------------------------------------------------------------------------
(* TokenBucketRateLimiter                                                  *)

\* const bucket = this.buckets.get(ip) || { tokens: this.maxTokens, lastRefill: now }
BucketOrNew(bs, ip, t) ==
    IF bs[ip] = NoBucket
    THEN [tokens |-> maxTokens * TokenUnit, lastRefill |-> t]
    ELSE bs[ip]

\* a refill at twice the rate
tokensToAddDoubleRate(b, t) == (t - b.lastRefill) * maxTokens * 2

\* a refill at half the rate
tokensToAddHalfRate(b, t) == ((t - b.lastRefill) * maxTokens) \div 2

\* timePassed * this.refillRate, in token units
tokensToAdd(b, t) == (t - b.lastRefill) * maxTokens

\* a refill that forgets the cap
RefillNoCap(b, t) ==
    [tokens |-> b.tokens + tokensToAdd(b, t), lastRefill |-> t]

\* bucket.tokens = Math.min(this.maxTokens, bucket.tokens + tokensToAdd);
\* bucket.lastRefill = now
Refill(b, t) ==
    [tokens |-> Min(maxTokens * TokenUnit, b.tokens + tokensToAdd(b, t)),
     lastRefill |-> t]

\* a test that admits an empty bucket
HasTokenOrEmpty(b) == b.tokens >= 0

\* if (bucket.tokens >= 1)
HasToken(b) == b.tokens >= TokenUnit

\* an admission that leaves the token in the bucket
TakeNoToken(b) == b

\* bucket.tokens -= 1
TakeToken(b) == [b EXCEPT !.tokens = @ - TokenUnit]

\* consume(ip) at time t: the value returned and the bucket stored
consume(bs, ip, t) ==
    LET b == Refill(BucketOrNew(bs, ip, t), t)
    IN  IF HasToken(b)
        THEN [ok |-> TRUE, bucket |-> TakeToken(b)]
        ELSE [ok |-> FALSE, bucket |-> b]

\* a reading that reports the stored tokens without the refill
getRemainingTokensStored(bs, ip, t) ==
    IF bs[ip] = NoBucket THEN maxTokens * TokenUnit ELSE bs[ip].tokens

\* getRemainingTokens(ip) at time t, in token units
getRemainingTokens(bs, ip, t) ==
    IF bs[ip] = NoBucket
    THEN maxTokens * TokenUnit
    ELSE Min(maxTokens * TokenUnit, bs[ip].tokens + tokensToAdd(bs[ip], t))

(* What the observation of an identity's consume calls records.  A run     *)
(* starts at a call that finds the bucket full after its refill.           *)
(*   ok       what the last call returned                                  *)
(*   idle     the last call came a full refillInterval or more after the   *)
(*            previous call of the identity                                *)
(*   low      the bucket stored before the last call held under one token  *)
(*   runNew   the current run began with the creation of the bucket        *)
(*   runSpan  the time from the start of the run to the last call:         *)
(*            "instant" (none), "minute" (under a minute), "window" (at    *)
(*            most refillInterval), "over"                                 *)
(*   runCount the number of calls of the run, the first included           *)
(*   runStart the time of the first call of the run                        *)
NoObs == [ok |-> FALSE, idle |-> FALSE, low |-> FALSE, runNew |-> FALSE,
          runSpan |-> "none", runCount |-> 0, runStart |-> -1]

SpanClass(d) ==
    IF d = 0 THEN "instant"
    ELSE IF d < TicksPerMinute THEN "minute"
    ELSE IF d <= refillInterval THEN "window"
    ELSE "over"

ObserveConsume(o, bs, ip, t) ==
    LET fresh == bs[ip] = NoBucket
        b == Refill(BucketOrNew(bs, ip, t), t)
        full == b.tokens >= maxTokens * TokenUnit
        start == IF full THEN t ELSE o.runStart
    IN  [ok |-> consume(bs, ip, t).ok,
         idle |-> ~fresh /\ t - bs[ip].lastRefill >= refillInterval,
         low |-> ~fresh /\ bs[ip].tokens < TokenUnit,
         runNew |-> IF full THEN fresh ELSE o.runNew,
         runSpan |-> SpanClass(t - start),
         runCount |-> IF full THEN 1 ELSE Min(o.runCount + 1, maxTokens + 2),
         runStart |-> start]

(* An interval of time, watched for one identity (observation): fnObs       *)
(* keeps the identity and the start of the interval (arg) and the number   *)
(* of the identity's consume calls admitted since the start (out).         *)
Watching(f, ip) == f.fn = "interval" /\ f.arg[1] = ip

CountAdmission(f, ip, ok) ==
    IF Watching(f, ip) /\ ok
    THEN [f EXCEPT !.out = Min(@ + 1, 2 * maxTokens + MaxTime)]
    ELSE f

\* the interval starts now, before any consume call of the identity at
\* this instant, whatever calls came earlier
StartInterval(ip) ==
    /\ fnObs.fn = "none"
    /\ buckets[ip] = NoBucket \/ buckets[ip].lastRefill < now
    /\ fnObs' = [fn |-> "interval", arg |-> <<ip, now>>, out |-> 0, prev |-> <<>>]
    /\ UNCHANGED <<now, rlVars, cacheVars, orch, postVars>>

Consume(ip) ==
    /\ buckets' = [buckets EXCEPT ![ip] = consume(buckets, ip, now).bucket]
    /\ consumeObs' = [consumeObs EXCEPT
                        ![ip] = ObserveConsume(consumeObs[ip], buckets, ip, now)]
    /\ UNCHANGED <<now, cacheVars, orch, postVars, fnObs>>

\* a consume call counted for the interval that is watched
ConsumeWatched(ip) ==
    /\ buckets' = [buckets EXCEPT ![ip] = consume(buckets, ip, now).bucket]
    /\ fnObs' = CountAdmission(fnObs, ip, consume(buckets, ip, now).ok)
    /\ UNCHANGED <<now, consumeObs, cacheVars, orch, postVars>>

\* a read: nothing is stored
GetRemainingTokens(ip) ==
    /\ getRemainingTokens(buckets, ip, now) >= 0
    /\ UNCHANGED vars

\* Date.now() moves on, by any amount
TickRL ==
    /\ \E d \in 1..refillInterval + 1 :
          /\ now + d <= MaxTime
          /\ now' = now + d
    /\ UNCHANGED <<rlVars, cacheVars, orch, postVars, fnObs>>

---------------------------------------------------------------------------
(* Request payloads and answers                                            *)

Issues == {"wifi", "boot"}
Devices == {"Desktop", "Phone"}
OSNames == {"Windows", "macOS", "Android", "iOS", "ChromeOS", "Linux"}
PayloadOS == {"Windows"}    \* the operating systems that requests name

\* the validated triples { issue, os, device }
ValidPayloads == [issue : Issues, os : PayloadOS, device : Devices]

\* const cacheKey = JSON.stringify({ issue, os, device })
cacheKeyOf(p) == <<p.issue, p.os, p.device>>

CacheKeys == {cacheKeyOf(p) : p \in ValidPayloads}

\* the answers that answerIssue returns, by name
AnswerIds == {"A1", "A2"}

---------------------------------------------------------------------------
(* LRUCache: this.cache is a Map, iterated in insertion order; the model   *)
(* keeps it as the sequence of its entries, oldest first.                  *)

NoValue == "undefined"

HasKey(c, k) == \E i \in 1..Len(c) : c[i].key = k

EntryOf(c, k) == c[CHOOSE i \in 1..Len(c) : c[i].key = k]

\* this.cache.delete(key)
DeleteKey(c, k) == SelectSeq(c, LAMBDA e : e.key # k)

\* an expiry test that also drops an entry whose age is exactly ttl
ExpiredAtTtl(e, t) == t - e.timestamp >= ttl

\* Date.now() - item.timestamp > this.ttl
Expired(e, t) == t - e.timestamp > ttl

\* a get that returns the value of a live entry but leaves it where it is
lruGetNoTouch(c, k, t) ==
    IF ~HasKey(c, k)
    THEN [value |-> NoValue, cache |-> c]
    ELSE IF Expired(EntryOf(c, k), t)
    THEN [value |-> NoValue, cache |-> DeleteKey(c, k)]
    ELSE [value |-> EntryOf(c, k).value, cache |-> c]

\* a get that gives a live entry a fresh timestamp when it returns it
lruGetRefresh(c, k, t) ==
    IF ~HasKey(c, k)
    THEN [value |-> NoValue, cache |-> c]
    ELSE IF Expired(EntryOf(c, k), t)
    THEN [value |-> NoValue, cache |-> DeleteKey(c, k)]
    ELSE [value |-> EntryOf(c, k).value,
          cache |-> Append(DeleteKey(c, k),
                           [EntryOf(c, k) EXCEPT !.timestamp = t])]

\* get(key) at time t: the value returned and the map afterwards
lruGet(c, k, t) ==
    IF ~HasKey(c, k)
    THEN [value |-> NoValue, cache |-> c]
    ELSE IF Expired(EntryOf(c, k), t)
    THEN [value |-> NoValue, cache |-> DeleteKey(c, k)]
    ELSE [value |-> EntryOf(c, k).value,
          cache |-> Append(DeleteKey(c, k), EntryOf(c, k))]

\* an eviction that lets the map grow one past the capacity
EvictOldestLate(c) == IF Len(c) > capacity /\ Len(c) > 0 THEN Tail(c) ELSE c

\* if (this.cache.size >= this.capacity) delete the first key
EvictOldest(c) == IF Len(c) >= capacity /\ Len(c) > 0 THEN Tail(c) ELSE c

\* a set that does not remove the key's existing entry first
lruSetNoDelete(c, k, v, t) ==
    Append(EvictOldest(c), [key |-> k, value |-> v, timestamp |-> t])

\* set(key, value) at time t: the map afterwards
lruSet(c, k, v, t) ==
    Append(EvictOldest(DeleteKey(c, k)),
           [key |-> k, value |-> v, timestamp |-> t])

\* size()
lruSize(c) == Len(c)

\* the keys that the map holds
KeysOf(c) == {c[i].key : i \in 1..Len(c)}

\* the recency order of the keys held (observation): a set or a get that
\* hits makes the key the most recently touched one; keys that left the
\* map are dropped
Touch(q, k) == Append(SelectSeq(q, LAMBDA x : x # k), k)

Held(q, c) == SelectSeq(q, LAMBDA x : x \in KeysOf(c))

CacheGet(k) ==
    /\ cache' = lruGet(cache, k, now).cache
    /\ cacheObs' = [op |-> "get", key |-> k, value |-> lruGet(cache, k, now).value,
                    hadKey |-> HasKey(cache, k), sizeBefore |-> lruSize(cache),
                    touched |-> Held(IF lruGet(cache, k, now).value # NoValue
                                     THEN Touch(cacheObs.touched, k)
                                     ELSE cacheObs.touched, cache')]
    /\ UNCHANGED <<now, rlVars, orch, postVars, fnObs>>

CacheSet(k, v) ==
    /\ cache' = lruSet(cache, k, v, now)
    /\ cacheObs' = [op |-> "set", key |-> k, value |-> v,
                    hadKey |-> HasKey(cache, k), sizeBefore |-> lruSize(cache),
                    touched |-> Held(Touch(cacheObs.touched, k), cache')]
    /\ UNCHANGED <<now, rlVars, orch, postVars, fnObs>>

TickCache ==
    /\ \E d \in 1..ttl + 1 :
          /\ now + d <= ttl + ExtraCacheTicks
          /\ now' = now + d
    /\ UNCHANGED <<rlVars, cacheVars, orch, postVars, fnObs>>

---------------------------------------------------------------------------
(* The answer contract (lib/answerSchema.ts).  A string is modelled by its *)
(* length; Absent stands for a string the JSON does not hold.  A parsed    *)
(* payload lists in its field missing the top-level keys it does not hold. *)

Absent == -1

TitleMax == 200             \* answer_title.substring(0, 200)
SummaryMax == 1000          \* one_paragraph_summary.substring(0, 1000)
PrereqMax == 300            \* p.substring(0, 300)
StepTitleMax == 150         \* step.title.substring(0, 150)
StepDetailMax == 800        \* step.detail.substring(0, 800)
ShellMax == 200             \* s.substring(0, 200)
IfMax == 200                \* dt.if.substring(0, 200)
ThenMax == 300              \* dt.then.substring(0, 300)
CaptionMax == 200           \* d.caption.substring(0, 200)
SvgMax == 10000             \* d.svg.substring(0, 10000)
CitationTitleMax == 200     \* c.title.substring(0, 200)
QuoteMax == 180             \* c.quote.substring(0, 180) and z.string().max(180)
WarningMax == 300           \* w.substring(0, 300)
MinCitations == 2           \* citations .min(2)
MaxCitations == 5           \* citations .max(5)
SvgTagLen == 4              \* the length of '<svg'

\* s.substring(0, n) of a string of length s
substring(s, n) == Min(s, n)

\* q.map(x => x.substring(0, n))
SubstringEach(q, n) == [i \in 1..Len(q) |-> substring(q[i], n)]

Url(host) == [valid |-> TRUE, host |-> host]

\* hostname.toLowerCase(), label by label, for the labels of the model
toLowerCase(label) ==
    IF label = "EXAMPLE" THEN "example"
    ELSE IF label = "Docs" THEN "docs"
    ELSE label
BadUrl == [valid |-> FALSE, host |-> <<>>]      \* new URL(...) throws, z.string().url() fails

\* the eTLD+1 of a parsed URL: parts.slice(-2).join('.'), or the hostname
\* a registrable domain that is the whole hostname, subdomains included
RegistrableDomainWholeHost(u) == [i \in 1..Len(u.host) |-> toLowerCase(u.host[i])]

RegistrableDomain(u) ==
    LET parts == [i \in 1..Len(u.host) |-> toLowerCase(u.host[i])]
    IN  IF Len(parts) >= 2 THEN SubSeq(parts, Len(parts) - 1, Len(parts)) ELSE parts

\* distinctDomainsOK(citations)
distinctDomainsOK(cs) ==
    IF Len(cs) < 2 THEN FALSE
    ELSE Cardinality({RegistrableDomain(cs[i].url) :
                        i \in {j \in 1..Len(cs) : cs[j].url.valid}}) >= 2

\* svg.trim().startsWith('<svg') for an svg of length len that holds lead
\* characters of white space and then, when tag, the text '<svg'
SvgStartsWithTag(v) == v.tag /\ v.lead + SvgTagLen <= v.len

SvgSubstring(v, n) == [v EXCEPT !.len = Min(v.len, n), !.lead = Min(v.lead, n)]

TopLevelKeys == {"answer_title", "one_paragraph_summary", "prereqs", "steps",
                 "decision_tree", "diagrams", "citations", "warnings"}

\* clampAnswer reads .substring or .map of an undefined value: a TypeError
ClampThrows(a) ==
    \/ a.missing # {}
    \/ \E i \in 1..Len(a.steps) : a.steps[i].title = Absent \/ a.steps[i].detail = Absent
    \/ \E i \in 1..Len(a.decision_tree) :
          a.decision_tree[i].if = Absent \/ a.decision_tree[i].then = Absent
    \/ \E i \in 1..Len(a.diagrams) : a.diagrams[i].caption = Absent
    \/ \E i \in 1..Len(a.citations) :
          a.citations[i].title = Absent \/ a.citations[i].quote = Absent

\* a clamp of a step that leaves its shell commands as they are
ClampStepKeepShell(st) ==
    [st EXCEPT !.title = substring(@, StepTitleMax),
               !.detail = substring(@, StepDetailMax)]

ClampStep(st) ==
    [st EXCEPT !.title = substring(@, StepTitleMax),
               !.detail = substring(@, StepDetailMax),
               !.shell = SubstringEach(@, ShellMax)]

ClampDecision(dt) ==
    [dt EXCEPT !.if = substring(@, IfMax), !.then = substring(@, ThenMax)]

ClampDiagram(d) ==
    [d EXCEPT !.caption = substring(@, CaptionMax), !.svg = SvgSubstring(@, SvgMax)]

ClampCitation(c) ==
    [c EXCEPT !.title = substring(@, CitationTitleMax),
              !.quote = substring(@, QuoteMax)]

\* clampAnswer(a), where it does not throw
clampAnswer(a) ==
    [a EXCEPT !.answer_title = substring(@, TitleMax),
              !.one_paragraph_summary = substring(@, SummaryMax),
              !.prereqs = SubstringEach(@, PrereqMax),
              !.steps = [i \in 1..Len(a.steps) |-> ClampStep(a.steps[i])],
              !.decision_tree =
                  [i \in 1..Len(a.decision_tree) |-> ClampDecision(a.decision_tree[i])],
              !.diagrams = [i \in 1..Len(a.diagrams) |-> ClampDiagram(a.diagrams[i])],
              !.citations = [i \in 1..Len(a.citations) |-> ClampCitation(a.citations[i])],
              !.warnings = SubstringEach(@, WarningMax)]

StepOK(st) ==
    /\ st.title >= 1
    /\ st.detail >= 1
    /\ Len(st.os) >= 1
    /\ \A i \in 1..Len(st.os) : st.os[i] \in OSNames
    /\ st.has_est => st.est_minutes > 0

DecisionOK(dt) ==
    /\ dt.if >= 1
    /\ dt.then >= 1
    /\ dt.has_link => dt.link_step > 0

DiagramOK(d) ==
    /\ d.caption >= 1
    /\ d.svg.len >= 1
    /\ SvgStartsWithTag(d.svg)

CitationOK(c) ==
    /\ c.url.valid
    /\ c.title >= 1
    /\ c.quote >= 0
    /\ c.quote <= QuoteMax

\* AnswerSchema.safeParse(a).success
SchemaOK(a) ==
    /\ a.missing \cap {"answer_title", "one_paragraph_summary", "steps", "citations"} = {}
    /\ a.answer_title >= 1
    /\ a.one_paragraph_summary >= 1
    /\ \A i \in 1..Len(a.prereqs) : a.prereqs[i] >= 0
    /\ Len(a.steps) >= 1
    /\ \A i \in 1..Len(a.steps) : StepOK(a.steps[i])
    /\ \A i \in 1..Len(a.decision_tree) : DecisionOK(a.decision_tree[i])
    /\ \A i \in 1..Len(a.diagrams) : DiagramOK(a.diagrams[i])
    /\ Len(a.citations) >= MinCitations
    /\ Len(a.citations) <= MaxCitations
    /\ \A i \in 1..Len(a.citations) : CitationOK(a.citations[i])
    /\ \A i \in 1..Len(a.warnings) : a.warnings[i] >= 0

\* AnswerSchema.safeParse(a).data: the defaults filled in
SchemaData(a) ==
    [a EXCEPT !.missing = {},
              !.prereqs = IF "prereqs" \in a.missing THEN <<>> ELSE @,
              !.decision_tree = IF "decision_tree" \in a.missing THEN <<>> ELSE @,
              !.diagrams = IF "diagrams" \in a.missing THEN <<>> ELSE @,
              !.warnings = IF "warnings" \in a.missing THEN <<>> ELSE @]

\* every size bound of the answer contract
WithinBounds(a) ==
    /\ a.answer_title <= TitleMax
    /\ a.one_paragraph_summary <= SummaryMax
    /\ \A i \in 1..Len(a.prereqs) : a.prereqs[i] <= PrereqMax
    /\ \A i \in 1..Len(a.steps) :
          /\ a.steps[i].title <= StepTitleMax
          /\ a.steps[i].detail <= StepDetailMax
          /\ \A j \in 1..Len(a.steps[i].shell) : a.steps[i].shell[j] <= ShellMax
    /\ \A i \in 1..Len(a.decision_tree) :
          a.decision_tree[i].if <= IfMax /\ a.decision_tree[i].then <= ThenMax
    /\ \A i \in 1..Len(a.diagrams) :
          a.diagrams[i].caption <= CaptionMax /\ a.diagrams[i].svg.len <= SvgMax
    /\ \A i \in 1..Len(a.citations) :
          a.citations[i].title <= CitationTitleMax /\ a.citations[i].quote <= QuoteMax
    /\ \A i \in 1..Len(a.warnings) : a.warnings[i] <= WarningMax

---------------------------------------------------------------------------
(* What the language model can send (inputs of the orchestration).         *)

citSupport == [url |-> Url(<<"support", "example", "com">>), title |-> 12, quote |-> 40]
citDocs == [url |-> Url(<<"docs", "example", "com">>), title |-> 8, quote |-> 180]
citDocsLongQuote == [url |-> Url(<<"docs", "example", "com">>), title |-> 8, quote |-> 181]
citDocsLongTitle == [url |-> Url(<<"docs", "example", "com">>), title |-> 201, quote |-> 3]
citOther == [url |-> Url(<<"different", "org">>), title |-> 9, quote |-> 0]
citVendor == [url |-> Url(<<"kb", "vendor", "net">>), title |-> 200, quote |-> 10]
citLongTitle == [url |-> Url(<<"wiki", "io">>), title |-> 201, quote |-> 10]
citLongQuote == [url |-> Url(<<"forum", "dev">>), title |-> 7, quote |-> 181]
citBadUrl == [url |-> BadUrl, title |-> 5, quote |-> 5]
citNoQuote == [url |-> Url(<<"different", "org">>), title |-> 5, quote |-> Absent]

\* the citation lists of the model's primary answer
PrimaryCitationLists ==
    { <<citSupport, citDocs>>,
      <<citBadUrl, citBadUrl>>,
      <<citSupport, citOther>>,
      <<citSupport>>,
      <<citSupport, citDocs, citSupport, citDocs, citSupport>>,
      <<citSupport, citDocs, citOther, citVendor, citSupport, citDocs>>,
      <<citSupport, citDocsLongQuote>>,
      <<citDocsLongTitle, citSupport, citDocs>>,
      <<citSupport, citBadUrl>>,
      <<citSupport, citNoQuote>> }

BaseStep == [title |-> 5, detail |-> 30, os |-> <<"Windows">>,
             has_est |-> TRUE, est_minutes |-> 5, shell |-> <<>>]
BaseDiagram == [caption |-> 6, svg |-> [len |-> 120, lead |-> 0, tag |-> TRUE]]
BaseDecision == [if |-> 10, then |-> 10, has_link |-> TRUE, link_step |-> 1]

\* a payload that meets the schema, but for its citations
BasePayload ==
    [missing |-> {}, answer_title |-> 20, one_paragraph_summary |-> 100,
     prereqs |-> <<10>>, steps |-> <<BaseStep>>, decision_tree |-> <<BaseDecision>>,
     diagrams |-> <<BaseDiagram>>, citations |-> <<>>, warnings |-> <<5>>]

\* the payloads that differ from it in one place
PayloadShapes ==
    { BasePayload,
      [BasePayload EXCEPT !.answer_title = 300],
      [BasePayload EXCEPT !.answer_title = 0],
      [BasePayload EXCEPT !.steps = <<>>],
      [BasePayload EXCEPT !.steps = <<[BaseStep EXCEPT !.detail = 801,
                                                     !.shell = <<201, 3>>]>>],
      [BasePayload EXCEPT !.missing = {"prereqs", "warnings"},
                          !.prereqs = <<>>, !.warnings = <<>>],
      [BasePayload EXCEPT !.diagrams =
          <<[BaseDiagram EXCEPT !.svg = [len |-> 10001, lead |-> 2, tag |-> TRUE]]>>],
      [BasePayload EXCEPT !.diagrams =
          <<[BaseDiagram EXCEPT !.svg = [len |-> 50, lead |-> 0, tag |-> FALSE]]>>],
      [BasePayload EXCEPT !.one_paragraph_summary = 1001, !.prereqs = <<301>>,
                          !.warnings = <<301>>,
                          !.decision_tree = <<[BaseDecision EXCEPT !.if = 201,
                                                                  !.then = 301]>>] }

Payloads ==
    {[sh EXCEPT !.citations = cs] : sh \in PayloadShapes, cs \in PrimaryCitationLists}

NoPayload == [BasePayload EXCEPT !.missing = TopLevelKeys]

(* The text of the model's direct answer.  form is "empty" (no content),  *)
(* "nojson" (prose with no {...}, [...] or fenced block), "broken" (text   *)
(* that fails JSON.parse before and after the fix-up) or "json": the JSON  *)
(* text of payload, written in a layout:                                   *)
(*   wrap         "bare", "fence" (inside ``` marks) or "prose" (text      *)
(*                before and after the object)                             *)
(*   unquoted     one key of the object is written without quotes          *)
(*   extraSpaces  the value of answer_title holds a run of white space     *)
(*                that is this many characters longer than one space       *)
TextLayouts ==
    { [wrap |-> "bare", unquoted |-> FALSE, extraSpaces |-> 0],
      [wrap |-> "fence", unquoted |-> FALSE, extraSpaces |-> 0],
      [wrap |-> "prose", unquoted |-> FALSE, extraSpaces |-> 0],
      [wrap |-> "bare", unquoted |-> TRUE, extraSpaces |-> 0],
      [wrap |-> "bare", unquoted |-> FALSE, extraSpaces |-> 2] }

PlainLayout == [wrap |-> "bare", unquoted |-> FALSE, extraSpaces |-> 0]

TextOf(f, pl, lay) == [form |-> f, payload |-> pl, layout |-> lay]

EmptyText == TextOf("empty", NoPayload, PlainLayout)

FinalTexts ==
    {TextOf(f, NoPayload, PlainLayout) : f \in {"empty", "nojson", "broken"}}
        \cup {t \in {TextOf("json", pl, lay) : pl \in Payloads, lay \in TextLayouts} :
                 t.layout.extraSpaces < t.payload.answer_title}

\* strategies 1 to 3 of the extraction: the text between the first two
\* fence marks, else from the first { to the last }, else from the first
\* [ to the last ]; none of them matches a text of form "nojson"
jsonStrFound(text) == text.form \in {"broken", "json"}

\* .replace(/^\s+|\s+$/g, '').replace(/\n\s*/g, ' ').replace(/\s+/g, ' ')
\* acts on the whole JSON text, the inside of its string values included:
\* every run of white space becomes one space
NormalizeWhitespace(text) ==
    [text EXCEPT !.payload.answer_title = @ - text.layout.extraSpaces,
                 !.layout.extraSpaces = 0]

\* the first JSON.parse(jsonStr) succeeds
FirstParseOK(text) == text.form = "json" /\ ~text.layout.unquoted

\* a string value of the JSON text holds word characters followed by a
\* colon: every URL that new URL() accepts here does (https:), the
\* unparseable URL of the model ("not a url") does not
HasWordColonValue(pl) ==
    \E i \in 1..Len(pl.citations) : pl.citations[i].url.valid

\* .replace(/(\w+):/g, '"$1":') quotes the unquoted key, and also every
\* word before a colon inside a string value, which ends that string early:
\* JSON.parse(fixedJson) succeeds only when there is no such value
SecondParseOK(text) ==
    text.form = "json" /\ text.layout.unquoted /\ ~HasWordColonValue(text.payload)

ParseOK(text) ==
    jsonStrFound(text) /\ (FirstParseOK(text) \/ SecondParseOK(text))

\* parsedResponse after lines 258-313, when no error was thrown
ParsedResponse(text) == NormalizeWhitespace(text).payload

\* what the citation-repair request can give: the arrays the reply can hold
RepairArrays ==
    { <<>>,
      <<citDocs>>,
      <<citOther>>,
      <<citOther, citVendor>>,
      <<citLongTitle>>,
      <<citLongQuote>>,
      <<citBadUrl>>,
      <<citOther, citVendor, citLongTitle, citSupport>> }

\* the call throws; content is empty; no [...] in it; JSON.parse of the match
\* throws; or the match parses to an array
RepairReplies ==
    {[kind |-> k, items |-> <<>>] : k \in {"throws", "nocontent", "noarray", "badarray"}}
        \cup {[kind |-> "array", items |-> n] : n \in RepairArrays}

(* A tool invocation of an assistant turn, by what becomes of it:          *)
(*   "ok"          a declared tool, arguments parse, the tool returns      *)
(*   "throws"      a declared tool, arguments parse, the tool throws       *)
(*   "badargs"     JSON.parse(args) throws                                 *)
(*   "unknown"     the name is not a key of toolFunctions                  *)
(*   "nonfunction" toolCall.type is not 'function'                         *)
ToolCallKinds == {"ok", "throws", "badargs", "unknown", "nonfunction"}

\* the tool_calls lists of an assistant turn
ToolCallTurns ==
    {<<k>> : k \in ToolCallKinds} \cup {<<"ok", "throws">>, <<"unknown", "ok">>}

maxToolCalls == 3           \* const maxToolCalls = 3

---------------------------------------------------------------------------
(* answerIssue (lib/llm.ts).  orch.pc is where the call stands:            *)
(*   "idle"     not called                                                 *)
(*   "drafting" awaiting openai.chat.completions.create of the tool loop   *)
(*   "tools"    executing the tool calls of the last assistant turn        *)
(*   "repair"   awaiting the completion of the citation addendum           *)
(*   "done"     returned orch.result                                       *)
(*   "failed"   threw; orch.error names the reason                         *)

OrchIdle ==
    [pc |-> "idle", messages |-> <<>>, toolCallCount |-> 0, modelCalls |-> 0,
     repairCalls |-> 0, pending |-> <<>>, toolResults |-> <<>>,
     finalText |-> TextOf("none", NoPayload, PlainLayout), parsed |-> NoPayload,
     validated |-> NoPayload, repairReply |-> [kind |-> "none", items |-> <<>>],
     result |-> NoPayload, error |-> "none", tools |-> FALSE]

Fail(o, reason) == [o EXCEPT !.pc = "failed", !.error = reason]

\* return validateAnswer(parsedResponse): AnswerSchema.parse throws a ZodError
validateAnswerThenReturn(o, a) ==
    IF SchemaOK(a)
    THEN [o EXCEPT !.pc = "done", !.result = SchemaData(a)]
    ELSE Fail(o, "final validation")

\* a check of the citations that is always content
DistinctCheckSkipped(a) == TRUE

\* distinctDomainsOK(parsedResponse.citations)
DistinctCheck(a) == distinctDomainsOK(a.citations)

\* a validation step that sends a payload the schema rejects to the repair
ClampValidateThenRepair(o, pl) ==
    IF ClampThrows(pl) THEN Fail(o, "clamp")
    ELSE [o EXCEPT !.validated = clampAnswer(pl), !.pc = "repair",
                   !.repairCalls = @ + 1, !.tools = FALSE]

\* lines 315-342: clamp, validate, then return or ask for the addendum
ClampValidate(o, pl) ==
    IF ClampThrows(pl) THEN Fail(o, "clamp")
    ELSE IF ~SchemaOK(clampAnswer(pl)) THEN Fail(o, "schema")
    ELSE LET v == SchemaData(clampAnswer(pl))
             o1 == [o EXCEPT !.validated = v]
         IN  IF DistinctCheck(v)
             THEN validateAnswerThenReturn(o1, v)
             ELSE [o1 EXCEPT !.pc = "repair", !.repairCalls = @ + 1,
                             !.tools = FALSE]

\* lines 251-313: the final response is tested, extracted and parsed
Finalize(o, text) ==
    IF text.form = "empty" THEN Fail(o, "no final response")
    ELSE IF ~ParseOK(text) THEN Fail(o, "no valid json")
    ELSE ClampValidate([o EXCEPT !.parsed = ParsedResponse(text)],
                       ParsedResponse(text))

\* a loop test that allows one round more
LoopTestOneMore(o) ==
    IF o.toolCallCount <= maxToolCalls
    THEN [o EXCEPT !.pc = "drafting", !.modelCalls = @ + 1, !.tools = TRUE]
    ELSE Finalize(o, EmptyText)

\* the loop test of while (toolCallCount < maxToolCalls): the next model
\* call, or the fall out of the loop with finalResponse still ''
LoopTest(o) ==
    IF o.toolCallCount < maxToolCalls
    THEN [o EXCEPT !.pc = "drafting", !.modelCalls = @ + 1, !.tools = TRUE]
    ELSE Finalize(o, EmptyText)

\* lines 150-180: the call of answerIssue, up to the first model call
OrchStart(apiKey) ==
    /\ orch.pc = "idle"
    /\ orch' = IF ~apiKey
               THEN Fail(orch, "no api key")
               ELSE LoopTest([orch EXCEPT !.messages =
                                <<[role |-> "system", id |-> <<>>, calls |-> <<>>],
                                  [role |-> "user", id |-> <<>>, calls |-> <<>>]>>])
    /\ UNCHANGED <<now, rlVars, cacheVars, postVars, fnObs>>

\* the model call rejects (network error, time-out, API error)
ModelThrows ==
    /\ orch.pc = "drafting"
    /\ orch' = Fail(orch, "model call")
    /\ UNCHANGED <<now, rlVars, cacheVars, postVars, fnObs>>

\* completion.choices[0]?.message is undefined
ModelNoMessage ==
    /\ orch.pc = "drafting"
    /\ orch' = Fail(orch, "no response")
    /\ UNCHANGED <<now, rlVars, cacheVars, postVars, fnObs>>

\* lines 189-201 and 251-342: an assistant message without tool calls
ModelFinal(text) ==
    /\ orch.pc = "drafting"
    /\ orch' = Finalize([orch EXCEPT
                  !.messages = Append(@, [role |-> "assistant", id |-> <<>>,
                                          calls |-> <<>>]),
                  !.finalText = text], text)
    /\ UNCHANGED <<now, rlVars, cacheVars, postVars, fnObs>>

ToolCallIds(round, turn) == [i \in 1..Len(turn) |-> <<round, i>>]

\* lines 189-206: an assistant message that requests tool calls
ModelToolCalls(turn) ==
    /\ orch.pc = "drafting"
    /\ LET ids == ToolCallIds(orch.toolCallCount + 1, turn)
       IN  orch' = [orch EXCEPT
              !.pc = "tools",
              !.messages = Append(@, [role |-> "assistant", id |-> <<>>,
                                      calls |-> ids]),
              !.pending = [i \in 1..Len(turn) |-> [id |-> ids[i], kind |-> turn[i]]],
              !.toolResults = <<>>]
    /\ UNCHANGED <<now, rlVars, cacheVars, postVars, fnObs>>

\* lines 207-243: what one tool call adds to toolResults
ToolResultOf(tc) ==
    IF tc.kind = "ok" THEN <<[role |-> "tool", id |-> tc.id, calls |-> <<"result">>]>>
    ELSE IF tc.kind \in {"throws", "badargs"}
    THEN <<[role |-> "tool", id |-> tc.id, calls |-> <<"error">>]>>
    ELSE <<>>

\* a result that is put before the results of the earlier calls
PushResultFront(results, tc) == ToolResultOf(tc) \o results

\* toolResults.push({ role: 'tool', ... })
PushResult(results, tc) == results \o ToolResultOf(tc)

\* lines 206-249: the next tool call of the turn is executed; after the
\* last one the results are pushed, the round is counted and the loop tested
ToolStep ==
    /\ orch.pc = "tools"
    /\ orch.pending # <<>>
    /\ LET results == PushResult(orch.toolResults, Head(orch.pending))
           rest == Tail(orch.pending)
       IN  orch' = IF rest # <<>>
                   THEN [orch EXCEPT !.pending = rest, !.toolResults = results]
                   ELSE LoopTest([orch EXCEPT !.pending = <<>>,
                                              !.toolResults = <<>>,
                                              !.messages = @ \o results,
                                              !.toolCallCount = @ + 1])
    /\ UNCHANGED <<now, rlVars, cacheVars, postVars, fnObs>>

Take(q, n) == SubSeq(q, 1, Min(n, Len(q)))

\* a splice that keeps every original citation
SpliceKeepOriginals(cs, extra) == Take(cs \o Take(extra, 3), 5)

\* [...citations.slice(0, 2), ...additionalCitations.slice(0, 3)].slice(0, 5)
SpliceCitations(cs, extra) == Take(Take(cs, 2) \o Take(extra, 3), 5)

\* an addendum step that checks the domains again and asks once more
ApplyAddendumRecheck(o, rep) ==
    LET a == IF rep.kind = "array"
             THEN [o.validated EXCEPT !.citations = SpliceCitations(@, rep.items)]
             ELSE o.validated
    IN  IF SchemaOK(a) /\ ~distinctDomainsOK(a.citations)
        THEN [o EXCEPT !.pc = "repair", !.repairCalls = @ + 1]
        ELSE validateAnswerThenReturn(o, a)

\* lines 344-375: the addendum's content is read and the answer returned
ApplyAddendum(o, rep) ==
    IF rep.kind \in {"nocontent", "noarray", "badarray"}
    THEN validateAnswerThenReturn(o, o.validated)
    ELSE LET spliced == [o.validated EXCEPT
                           !.citations = SpliceCitations(@, rep.items)]
         IN  validateAnswerThenReturn(o, spliced)

\* lines 337-375: the addendum request settles
RepairReply(rep) ==
    /\ orch.pc = "repair"
    /\ orch' = IF rep.kind = "throws"
               THEN Fail([orch EXCEPT !.repairReply = rep], "model call")
               ELSE ApplyAddendum([orch EXCEPT !.repairReply = rep], rep)
    /\ UNCHANGED <<now, rlVars, cacheVars, postVars, fnObs>>

---------------------------------------------------------------------------
(* POST, the request handler.  A request runs in a slot; between its       *)
(* awaits (request.json(), answerIssue, request.json() of the catch block) *)
(* the steps of other requests interleave.  reqs[s].pc:                    *)
(*   "idle"          no request in the slot                                *)
(*   "parsing"       awaiting request.json() (line 158)                    *)
(*   "orchestrating" awaiting answerIssue (line 189)                       *)
(*   "catching"      in the catch block, awaiting request.json() (223)     *)

PostMaxTime == 1            \* in Spec the clock runs to PostMaxTime
HitExtraTicks == 1          \* in SpecHit the clock runs to ttl + HitExtraTicks
Slots == {"s1", "s2"}       \* the requests in flight at once

\* what a request body can be: a valid triple, an object the schema
\* rejects, or text that is not JSON
PostPayloads == {p \in ValidPayloads : p.device = "Desktop" /\ p.issue = "wifi"}
HitPayloads == {p \in ValidPayloads : p.device = "Desktop" \/ p.issue = "wifi"}
Bodies ==
    {[kind |-> "valid", payload |-> p] : p \in PostPayloads}
        \cup {[kind |-> k, payload |-> CHOOSE p \in PostPayloads : TRUE] :
                k \in {"invalid", "notjson"}}

NoBody == [kind |-> "none", payload |-> CHOOSE p \in PostPayloads : TRUE]

IdleRequest ==
    [pc |-> "idle", ip |-> "none", body |-> NoBody, admitted |-> FALSE,
     orchCalls |-> 0, cacheReads |-> 0, cacheWrites |-> 0, error |-> "none"]

\* the reasons for which answerIssue throws (orch.error)
OrchErrors ==
    {"no api key", "model call", "no response", "no final response",
     "no valid json", "clamp", "schema", "final validation"}

\* the headers of the four kinds of response
Headers429 == {"X-RateLimit-Remaining", "X-RateLimit-Reset"}
HeadersHit == {"X-Cache", "X-Cache-Size"}
HeadersMiss == {"X-Cache", "X-Cache-Size", "X-RateLimit-Remaining"}
HeadersError == {}

\* a response: the status, the JSON body, the headers (xcache is the value
\* of X-Cache), and what the request did on its way: the calls it made, the
\* telemetry records it logged, and the error that ended it (cause)
NoneDone ==
    [admitted |-> FALSE, status |-> 0, body |-> <<>>,
     xcache |-> "none", headers |-> {}, orchCalls |-> 0, cacheReads |-> 0,
     cacheWrites |-> 0, telemetry |-> 0, cause |-> "none"]

Respond(r, status, body, xcache, headers, telemetry) ==
    [admitted |-> r.admitted, status |-> status, body |-> body,
     xcache |-> xcache, headers |-> headers, orchCalls |-> r.orchCalls,
     cacheReads |-> r.cacheReads, cacheWrites |-> r.cacheWrites,
     telemetry |-> telemetry, cause |-> r.error]

\* a body that carries one fixed answer whatever answerIssue returned
JsonAnswerFixed(a) == <<"answer", "A1">>

\* NextResponse.json(answer): the body of a successful response
JsonAnswer(a) == <<"answer", a>>

\* the MISS answers of a key since the key entered the cache (observation):
\* the first and the last answer stored, and when
NoMiss == [first |-> NoValue, firstAt |-> -1, last |-> NoValue, lastAt |-> -1]

RecordMiss(m, a, t) ==
    IF m = NoMiss
    THEN [first |-> a, firstAt |-> t, last |-> a, lastAt |-> t]
    ELSE [m EXCEPT !.last = a, !.lastAt = t]

\* the keys that left the cache have no MISS answer any more
MissedAfter(ms, c) == [k \in DOMAIN ms |-> IF HasKey(c, k) THEN ms[k] ELSE NoMiss]

\* a test of the limiter's answer that lets every request through
DeniedNever(ok) == FALSE

\* if (!rateLimiter.consume(clientIP))
Denied(ok) == ~ok

\* lines 129-158: the request arrives, the limiter is asked, and the request
\* is answered 429 or goes on to read its body
PostStart(s, ip, body) ==
    /\ reqs[s].pc = "idle"
    /\ LET c == consume(buckets, ip, now)
           r == [IdleRequest EXCEPT !.ip = ip, !.body = body, !.admitted = c.ok]
       IN  /\ buckets' = [buckets EXCEPT ![ip] = c.bucket]
           /\ IF Denied(c.ok)
              THEN /\ lastDone' = Respond(r, 429, <<"error", "Rate limit exceeded">>,
                                          "none", Headers429, 0)
                   /\ UNCHANGED reqs
              ELSE /\ reqs' = [reqs EXCEPT ![s] = [r EXCEPT !.pc = "parsing"]]
                   /\ UNCHANGED lastDone
    /\ UNCHANGED <<now, consumeObs, cacheVars, orch, missed, fnObs>>

\* a test of the cached result that never finds one
CacheHitNever(v) == FALSE

\* if (cachedResult)
CacheHit(v) == v # NoValue

\* lines 158-189: the body is parsed and validated, the cache is read, and
\* the request is answered from the cache or answerIssue is called
PostParsed(s) ==
    /\ reqs[s].pc = "parsing"
    /\ LET r == reqs[s]
           g == lruGet(cache, cacheKeyOf(r.body.payload), now)
       IN  IF r.body.kind # "valid"
           THEN /\ reqs' = [reqs EXCEPT ![s] =
                      [r EXCEPT !.pc = "catching", !.body = NoBody,
                                !.error = IF r.body.kind = "invalid"
                                          THEN "ZodError" ELSE "SyntaxError"]]
                /\ UNCHANGED <<cache, lastDone, missed>>
           ELSE /\ cache' = g.cache
                /\ missed' = MissedAfter(missed, g.cache)
                /\ IF CacheHit(g.value)
                   THEN /\ lastDone' = Respond([r EXCEPT !.cacheReads = @ + 1],
                                               200, JsonAnswer(g.value), "HIT",
                                               HeadersHit, 1)
                        /\ reqs' = [reqs EXCEPT ![s] = IdleRequest]
                   ELSE /\ reqs' = [reqs EXCEPT ![s] =
                              [r EXCEPT !.pc = "orchestrating",
                                        !.cacheReads = @ + 1,
                                        !.orchCalls = @ + 1]]
                        /\ UNCHANGED lastDone
    /\ UNCHANGED <<now, rlVars, cacheObs, orch, fnObs>>

\* lines 189-216: answerIssue returns an answer, which is cached and sent
PostAnswer(s, answer) ==
    /\ reqs[s].pc = "orchestrating"
    /\ LET k == cacheKeyOf(reqs[s].body.payload)
       IN  /\ cache' = lruSet(cache, k, answer, now)
           /\ missed' = MissedAfter([missed EXCEPT
                                        ![k] = RecordMiss(@, answer, now)],
                                    cache')
    /\ lastDone' = Respond([reqs[s] EXCEPT !.cacheWrites = @ + 1],
                           200, JsonAnswer(answer), "MISS", HeadersMiss, 1)
    /\ reqs' = [reqs EXCEPT ![s] = IdleRequest]
    /\ UNCHANGED <<now, rlVars, cacheObs, orch, fnObs>>

\* line 189, 218-223: answerIssue throws, for one of its reasons
PostOrchThrows(s, reason) ==
    /\ reqs[s].pc = "orchestrating"
    /\ reqs' = [reqs EXCEPT ![s] = [@ EXCEPT !.pc = "catching", !.body = NoBody,
                                         !.error = reason]]
    /\ UNCHANGED <<now, rlVars, cacheVars, orch, lastDone, missed, fnObs>>

\* error instanceof z.ZodError
IsZodError(error) == error = "ZodError"

\* a 500 body that carries the text of the error
ErrorBodyWithMessage(error) == <<"error", "Internal server error", error>>

\* { error: 'Internal server error' }
ErrorBody(error) == <<"error", "Internal server error">>

\* lines 223-258: the catch block logs its telemetry and answers 400 or 500
PostCatch(s) ==
    /\ reqs[s].pc = "catching"
    /\ lastDone' = IF IsZodError(reqs[s].error)
                   THEN Respond(reqs[s], 400,
                                <<"error", "Invalid request data", "details">>,
                                "none", HeadersError, 1)
                   ELSE Respond(reqs[s], 500, ErrorBody(reqs[s].error),
                                "none", HeadersError, 1)
    /\ reqs' = [reqs EXCEPT ![s] = IdleRequest]
    /\ UNCHANGED <<now, rlVars, cacheVars, orch, missed, fnObs>>

\* Date.now() moves on by more than the cache's ttl
TickPastTtl ==
    /\ now + ttl + 1 <= ttl + HitExtraTicks
    /\ now' = now + ttl + 1
    /\ UNCHANGED <<rlVars, cacheVars, orch, postVars, fnObs>>

\* Date.now() moves on
Tick ==
    /\ now < PostMaxTime
    /\ now' = now + 1
    /\ UNCHANGED <<rlVars, cacheVars, orch, postVars, fnObs>>

---------------------------------------------------------------------------
(* The pure helpers, each called on its own with arguments drawn from      *)
(* small sets; fnObs keeps the last call, and for the cache key also the   *)
(* call before it.                                                         *)

NoCall == [fn |-> "none", arg |-> <<>>, out |-> <<>>, prev |-> <<>>]

Called(fn, arg, out, prev) == [fn |-> fn, arg |-> arg, out |-> out, prev |-> prev]

MaxListLen == 3

SeqsUpTo(S, n) == UNION {[1..k -> S] : k \in 0..n}

\* the URLs of the citations handed to distinctDomainsOK
HelperUrls ==
    { Url(<<"support", "example", "com">>),
      Url(<<"Docs", "EXAMPLE", "com">>),
      Url(<<"example", "com">>),
      Url(<<"different", "org">>),
      Url(<<"localhost">>),
      BadUrl }

HelperCitationLists ==
    SeqsUpTo({[url |-> u, title |-> 5, quote |-> 5] : u \in HelperUrls}, MaxListLen)

\* a call distinctDomainsOK(cs)
CallDistinctDomainsOK(cs) ==
    /\ fnObs' = Called("distinctDomainsOK", cs, distinctDomainsOK(cs), <<>>)
    /\ UNCHANGED <<now, rlVars, cacheVars, orch, postVars>>

---------------------------------------------------------------------------
Init ==
    /\ now = 0
    /\ buckets = [ip \in Identities |-> NoBucket]
    /\ consumeObs = [ip \in Identities |-> NoObs]
    /\ cache = <<>>
    /\ cacheObs = [op |-> "none", key |-> <<>>, value |-> NoValue,
                   hadKey |-> FALSE, sizeBefore |-> 0, touched |-> <<>>]
    /\ orch = OrchIdle
    /\ reqs = [s \in Slots |-> IdleRequest]
    /\ lastDone = NoneDone
    /\ missed = [k \in CacheKeys |-> NoMiss]
    /\ fnObs = NoCall

\* an answer with every bounded string one character over its bound, and
\* one with every bounded string exactly at its bound
LongAnswer ==
    [BasePayload EXCEPT
        !.answer_title = TitleMax + 1, !.one_paragraph_summary = SummaryMax + 1,
        !.prereqs = <<PrereqMax + 1, 3>>,
        !.steps = <<[BaseStep EXCEPT !.title = StepTitleMax + 1,
                                     !.detail = StepDetailMax + 1,
                                     !.shell = <<3, ShellMax + 1>>], BaseStep>>,
        !.decision_tree = <<[BaseDecision EXCEPT !.if = IfMax + 1,
                                                 !.then = ThenMax + 1]>>,
        !.diagrams = <<[BaseDiagram EXCEPT
                          !.caption = CaptionMax + 1,
                          !.svg = [len |-> SvgMax + 1, lead |-> 0, tag |-> TRUE]]>>,
        !.citations = <<citLongTitle, citLongQuote>>,
        !.warnings = <<WarningMax + 1>>]

FullAnswer ==
    [BasePayload EXCEPT
        !.answer_title = TitleMax, !.one_paragraph_summary = SummaryMax,
        !.prereqs = <<PrereqMax>>,
        !.steps = <<[BaseStep EXCEPT !.title = StepTitleMax,
                                     !.detail = StepDetailMax,
                                     !.shell = <<ShellMax>>]>>,
        !.decision_tree = <<[BaseDecision EXCEPT !.if = IfMax, !.then = ThenMax]>>,
        !.diagrams = <<[BaseDiagram EXCEPT
                          !.caption = CaptionMax,
                          !.svg = [len |-> SvgMax, lead |-> 0, tag |-> TRUE]]>>,
        !.citations = <<citVendor, citDocs>>,
        !.warnings = <<WarningMax>>]

\* the values of type Answer handed to clampAnswer: every field is there
HelperAnswers ==
    {a \in Payloads : ~ClampThrows(a)} \cup {LongAnswer, FullAnswer}

\* a call clampAnswer(a), and clampAnswer of what it returned
CallClampAnswer(a) ==
    /\ fnObs' = Called("clampAnswer", a,
                       <<clampAnswer(a), clampAnswer(clampAnswer(a))>>, <<>>)
    /\ UNCHANGED <<now, rlVars, cacheVars, orch, postVars>>

(* fetch_page(url).  A url is its length.  What the upstream does:         *)
(*   kind      "success" (response.ok and the body is read), "http error"  *)
(*             (!response.ok), "network error" (fetch rejects) or          *)
(*             "timeout" (the abort after 15 seconds)                      *)
(*   body      the text of <body>: len characters, of which extra are      *)
(*             white space that the collapse and the trim remove           *)
(*   elements  the h1, h2 and h3 elements in document order, each with the *)
(*             length of its text and the white space around it (pad)      *)
CleanTextMax == 40000       \* cleanText.length > 40000, substring(0, 40000)
EllipsisLen == 3            \* the length of '...'
HeadingsMax == 20           \* headings.length < 20
FailurePrefixLen == 29      \* the length of 'Unable to fetch content from '
FailureSuffixLen == 37      \* the length of '. Please check the URL and try again.'

\* text && text.length > 0, for text = $(element).text().trim()
NonEmptyHeading(h) == h.len - h.pad > 0

\* the each() loop without the test headings.length < 20
HeadingsOfNoLimit(elements) ==
    LET kept == SelectSeq(elements, NonEmptyHeading)
    IN  [i \in 1..Len(kept) |-> kept[i].len - kept[i].pad]

\* the each() loop: the trimmed texts of the first 20 non-empty elements
HeadingsOf(elements) ==
    LET kept == Take(SelectSeq(elements, NonEmptyHeading), HeadingsMax)
    IN  [i \in 1..Len(kept) |-> kept[i].len - kept[i].pad]

\* $('body').text().replace(/\s+/g, ' ').replace(/\n+/g, ' ').trim()
CollapsedLen(body) == body.len - body.extra

\* the truncation to 40k characters
Truncated(n) == IF n > CleanTextMax THEN CleanTextMax + EllipsisLen ELSE n

\* fetch_page(url): the whole body is inside try, and the catch returns
fetch_page(url, up) ==
    IF up.kind = "success"
    THEN [raised |-> FALSE,
          clean_text |-> Truncated(CollapsedLen(up.body)),
          headings |-> HeadingsOf(up.elements)]
    ELSE [raised |-> FALSE,
          clean_text |-> FailurePrefixLen + url + FailureSuffixLen,
          headings |-> <<>>]

UrlLengths == {20, 40000}

HeadingElement == [len |-> 7, pad |-> 2]
BlankElement == [len |-> 2, pad |-> 2]

HeadingLists ==
    {[i \in 1..n |-> HeadingElement] : n \in {0, 1, 19, 20, 21, 25}}
        \cup {[i \in 1..21 |-> IF i = 1 THEN BlankElement ELSE HeadingElement]}

Bodies40k ==
    {[len |-> n, extra |-> e] : n \in {1, 100, 40000, 40001, 50000}, e \in {0, 1}}

Upstreams ==
    {[kind |-> k, body |-> [len |-> 0, extra |-> 0], elements |-> <<>>] :
        k \in {"http error", "network error", "timeout"}}
        \cup {[kind |-> "success", body |-> b, elements |-> hs] :
                b \in Bodies40k, hs \in HeadingLists}

\* a call fetch_page(url) that meets the upstream up
CallFetchPage(url, up) ==
    /\ fnObs' = Called("fetch_page", [url |-> url, upstream |-> up],
                       fetch_page(url, up), <<>>)
    /\ UNCHANGED <<now, rlVars, cacheVars, orch, postVars>>

(* The cache key JSON.stringify({ issue, os, device }) as text: a string   *)
(* is the sequence of its characters.                                      *)
DQ == "\""
BS == "\\"

\* a string character copied into the JSON text as it is
EscapeCharNone(c) == <<c>>

\* JSON.stringify of one character of a string: " and \ get a backslash
EscapeChar(c) ==
    IF c = DQ THEN <<BS, DQ>> ELSE IF c = BS THEN <<BS, BS>> ELSE <<c>>

RECURSIVE Escape(_)
Escape(s) == IF s = <<>> THEN <<>> ELSE EscapeChar(Head(s)) \o Escape(Tail(s))

\* JSON.stringify of a string
Quoted(s) == <<DQ>> \o Escape(s) \o <<DQ>>

\* JSON.stringify({ issue, os, device }): the properties in creation order
stringifyKey(t) ==
    <<"{">> \o Quoted(<<"i", "s", "s", "u", "e">>) \o <<":">> \o Quoted(t.issue)
        \o <<",">> \o Quoted(<<"o", "s">>) \o <<":">> \o Quoted(t.os)
        \o <<",">> \o Quoted(<<"d", "e", "v", "i", "c", "e">>) \o <<":">>
        \o Quoted(t.device) \o <<"}">>

\* the text  ","os":"iOS","device":"  that stands between an issue and a
\* device in a key
KeySeparator ==
    <<DQ, ",", DQ, "o", "s", DQ, ":", DQ, "i", "O", "S", DQ, ",", DQ,
      "d", "e", "v", "i", "c", "e", DQ, ":", DQ>>

IssueWithSeparator == <<"a">> \o KeySeparator \o <<"b">>
DeviceWithSeparator == <<"b">> \o KeySeparator \o <<"c">>

\* validated triples: issue and device are any non-empty strings, os is one
\* of the enumerated names
KeyTriples ==
    {[issue |-> i, os |-> o, device |-> d] :
        i \in {<<"a">>, IssueWithSeparator, <<"a", DQ>>, <<"a", BS>>},
        o \in {<<"i", "O", "S">>, <<"L", "i", "n", "u", "x">>},
        d \in {<<"c">>, DeviceWithSeparator, <<DQ>>, <<BS, DQ>>}}

\* line 163 for a validated triple; the call before it is kept
CallCacheKey(t) ==
    /\ fnObs' = Called("cacheKey", t, stringifyKey(t),
                       IF fnObs.fn = "cacheKey"
                       THEN <<[arg |-> fnObs.arg, out |-> fnObs.out]>>
                       ELSE <<>>)
    /\ UNCHANGED <<now, rlVars, cacheVars, orch, postVars>>

(* TokenBucketRateLimiter with the rounding of its arithmetic.  tokens,    *)
(* refillRate and tokensToAdd are JavaScript numbers: every division,      *)
(* product and sum is rounded to the nearest number with a significand of  *)
(* so many bits (53 in the program, MantissaBits here), ties to even.      *)
(* Time is in ticks of 60 / PollTicksPerMinute seconds, so one token is    *)
(* refilled in PollTicksPerMinute ticks, and amounts of tokens are counted *)
(* in units of 1 / FineUnit token, the spacing of the numbers around       *)
(* refillRate: every amount that arises is a whole number of units.        *)
MantissaBits == 5
PollTicksPerMinute == 6
ExtraPollTicks == 2

RECURSIVE Pow2(_)
Pow2(n) == IF n = 0 THEN 1 ELSE 2 * Pow2(n - 1)

FineUnit == Pow2(MantissaBits + 2)
refillIntervalPoll == refillIntervalMinutes * PollTicksPerMinute
MaxPollTime == PollTicksPerMinute + ExtraPollTicks

\* the spacing of the representable numbers around x
RECURSIVE UlpOf(_)
UlpOf(x) == IF x < Pow2(MantissaBits) THEN 1 ELSE 2 * UlpOf(x \div 2)

\* num / den rounded to a multiple of ulp, ties to even
RoundedQuotient(num, den, ulp) ==
    LET q == num \div (den * ulp)
        r == num - q * den * ulp
    IN  IF 2 * r > den * ulp \/ (2 * r = den * ulp /\ q % 2 = 1)
        THEN (q + 1) * ulp
        ELSE q * ulp

\* the number that an exact result of x units is rounded to
Rounded(x) == RoundedQuotient(x, 1, UlpOf(x))

\* this.refillRate = maxTokens / refillIntervalMs, in units per tick
refillRate ==
    RoundedQuotient(maxTokens * FineUnit, refillIntervalPoll,
                    UlpOf((maxTokens * FineUnit) \div refillIntervalPoll))

\* lines 72-78, with a new bucket for an identity that has none
RefillRounded(bs, ip, t) ==
    IF bs[ip] = NoBucket
    THEN [tokens |-> maxTokens * FineUnit, lastRefill |-> t]
    ELSE LET timePassed == t - bs[ip].lastRefill
             toAdd == Rounded(timePassed * refillRate)
         IN  [tokens |-> Min(maxTokens * FineUnit, Rounded(bs[ip].tokens + toAdd)),
              lastRefill |-> t]

\* consume(ip) at time t with rounded arithmetic
consumeRounded(bs, ip, t) ==
    LET b == RefillRounded(bs, ip, t)
    IN  IF b.tokens >= FineUnit
        THEN [ok |-> TRUE, bucket |-> [b EXCEPT !.tokens = Rounded(@ - FineUnit)]]
        ELSE [ok |-> FALSE, bucket |-> b]

(* A call of consume; fnObs keeps the time of the call, what it returned,  *)
(* whether the bucket was written without a subtraction, and the time of   *)
(* the first denial since the identity's last admission as it was before   *)
(* the call (prev) and as it is after it (out.denied).                     *)
ConsumeRounded(ip) ==
    LET c == consumeRounded(buckets, ip, now)
        before == IF fnObs.fn = "consume" THEN fnObs.out.denied ELSE <<>>
    IN  /\ buckets' = [buckets EXCEPT ![ip] = c.bucket]
        /\ fnObs' = Called("consume", now,
                           [ok |-> c.ok,
                            denied |-> IF c.ok THEN <<>>
                                       ELSE IF before = <<>> THEN <<now>>
                                       ELSE before],
                           before)
        /\ UNCHANGED <<now, consumeObs, cacheVars, orch, postVars>>

\* Date.now() moves on
TickPoll ==
    /\ \E d \in 1..PollTicksPerMinute :
          /\ now + d <= MaxPollTime
          /\ now' = now + d
    /\ UNCHANGED <<rlVars, cacheVars, orch, postVars, fnObs>>

---------------------------------------------------------------------------
(* The 429 response's retryAfter.  Date.now() is the model's time in ticks *)
(* converted to milliseconds; fnObs keeps the last request of the identity *)
(* (when it came, whether it was admitted, the retryAfter it was sent) and *)
(* the one before it (prev).                                               *)

MsPerTick == (60 * 1000) \div TicksPerMinute

\* Math.ceil(a / b) for a >= 0, b > 0
CeilDiv(a, b) == (a + b - 1) \div b

\* Math.ceil((10 * 60 * 1000 - (Date.now() % (10 * 60 * 1000))) / 1000)
retryAfter(t) ==
    CeilDiv(refillIntervalMinutes * 60 * 1000
              - ((t * MsPerTick) % (refillIntervalMinutes * 60 * 1000)),
            1000)

\* lines 139-155: the limiter is asked and the denied request is sent its
\* retryAfter
PostLimited(ip) ==
    LET c == consume(buckets, ip, now)
        last == IF fnObs.fn = "post" THEN <<fnObs.out>> ELSE <<>>
    IN  /\ buckets' = [buckets EXCEPT ![ip] = c.bucket]
        /\ fnObs' = Called("post", ip,
                           [at |-> now, ok |-> c.ok,
                            retryAfter |-> IF Denied(c.ok) THEN retryAfter(now)
                                           ELSE 0],
                           last)
        /\ UNCHANGED <<now, consumeObs, cacheVars, orch, postVars>>

(* The pure helpers on their own.                                          *)
NextFn ==
    \/ \E cs \in HelperCitationLists : CallDistinctDomainsOK(cs)
    \/ \E a \in HelperAnswers : CallClampAnswer(a)
    \/ \E url \in UrlLengths, up \in Upstreams : CallFetchPage(url, up)
    \/ \E t \in KeyTriples : CallCacheKey(t)

SpecFn == Init /\ [][NextFn]_vars

(* The rate limiter with rounded arithmetic, polled by one identity.       *)
NextPoll ==
    \/ \E ip \in Callers : ConsumeRounded(ip)
    \/ TickPoll

SpecPoll == Init /\ [][NextPoll]_vars

(* The rate limiter on its own, called at non-decreasing times: consume by *)
(* the identities of Callers, getRemainingTokens for any identity.         *)
NextRL ==
    \/ \E ip \in Callers : Consume(ip)
    \/ \E ip \in Identities : GetRemainingTokens(ip)
    \/ TickRL

SpecRL == Init /\ [][NextRL]_vars

(* The rate limiter on its own, with an interval of time that starts at    *)
(* any instant and in which the admitted consume calls are counted.        *)
NextWindow ==
    \/ \E ip \in Callers : ConsumeWatched(ip)
    \/ \E ip \in Callers : StartInterval(ip)
    \/ TickRL

SpecWindow == Init /\ [][NextWindow]_vars

(* The limiter as the handler asks it, with the retryAfter of each denial. *)
NextRetry ==
    \/ \E ip \in Callers : PostLimited(ip)
    \/ TickRL

SpecRetry == Init /\ [][NextRetry]_vars

(* The cache on its own, under any sequence of get and set calls.          *)
NextCache ==
    \/ \E k \in CacheKeys : CacheGet(k)
    \/ \E k \in CacheKeys, v \in AnswerIds : CacheSet(k, v)
    \/ TickCache

SpecCache == Init /\ [][NextCache]_vars

(* The handler under any sequence and interleaving of requests.            *)
Next ==
    \/ \E s \in Slots, ip \in Callers, body \in Bodies : PostStart(s, ip, body)
    \/ \E s \in Slots : PostParsed(s)
    \/ \E s \in Slots, a \in AnswerIds : PostAnswer(s, a)
    \/ \E s \in Slots, reason \in OrchErrors : PostOrchThrows(s, reason)
    \/ \E s \in Slots : PostCatch(s)
    \/ Tick

Spec == Init /\ [][Next]_vars

(* The handler under requests with valid payloads for capacity + 1 keys    *)
(* that answerIssue serves, over a time longer than the cache's ttl (the   *)
(* requests that fail write nothing to the cache; they are part of Spec).  *)
HitBodies == {[kind |-> "valid", payload |-> p] : p \in HitPayloads}

NextHit ==
    \/ \E s \in Slots, ip \in Callers, body \in HitBodies : PostStart(s, ip, body)
    \/ \E s \in Slots : PostParsed(s)
    \/ \E s \in Slots, a \in AnswerIds : PostAnswer(s, a)
    \/ TickPastTtl

SpecHit == Init /\ [][NextHit]_vars

(* One call of answerIssue, against every behaviour of the model and the   *)
(* tools.                                                                  *)
NextOrch ==
    \/ \E k \in BOOLEAN : OrchStart(k)
    \/ ModelThrows
    \/ ModelNoMessage
    \/ \E text \in FinalTexts : ModelFinal(text)
    \/ \E turn \in ToolCallTurns : ModelToolCalls(turn)
    \/ ToolStep
    \/ \E rep \in RepairReplies : RepairReply(rep)

SpecOrch == Init /\ [][NextOrch]_vars

\* every awaited call (model, tool) settles: it returns, throws or times out
FairSpecOrch == SpecOrch /\ WF_vars(NextOrch)

---------------------------------------------------------------------------
(* Claims about the handler (checked under Spec).                          *)

\* C1: a request that rateLimiter.consume denies never causes answerIssue to
\* be invoked and never reads or writes the cache; the handler ends it with
\* the 429 response, whatever other requests are in flight.
C1_DeniedNeverReachesOrchestrator ==
    /\ \A s \in Slots : reqs[s].pc # "idle" => reqs[s].admitted
    /\ (lastDone.status # 0 /\ ~lastDone.admitted) =>
          /\ lastDone.status = 429
          /\ lastDone.orchCalls = 0
          /\ lastDone.cacheReads = 0
          /\ lastDone.cacheWrites = 0

\* a request was denied while another one was awaiting answerIssue
C1_Witness ==
    /\ lastDone.status = 429
    /\ ~lastDone.admitted
    /\ \E s \in Slots : reqs[s].pc = "orchestrating"
    /\ \E ip \in Identities : buckets[ip] # NoBucket /\ ~HasToken(buckets[ip])

---------------------------------------------------------------------------
(* Claims about answerIssue (checked under SpecOrch and FairSpecOrch).     *)

\* C2: every Answer that answerIssue returns, with or without the citation
\* repair round, satisfies the schema and every size bound of the answer
\* contract (citations spliced in by the repair round included).
C2_ReturnedAnswerValidAndClamped ==
    orch.pc = "done" => (SchemaOK(orch.result) /\ WithinBounds(orch.result))

\* C3: answerIssue terminates; it issues at most 3 tool-enabled model calls,
\* and when the model requests tool calls on each of the 3 rounds the
\* orchestration ends in failure: no 4th drafting call, no Answer returned.
C3_RoundCeiling ==
    /\ [](/\ orch.modelCalls <= maxToolCalls
          /\ orch.toolCallCount <= maxToolCalls
          /\ orch.toolCallCount = maxToolCalls =>
                (/\ orch.pc = "failed"
                 /\ orch.error = "no final response"
                 /\ orch.result = NoPayload
                 /\ orch.modelCalls = maxToolCalls))
    /\ <>(orch.pc \in {"done", "failed"})

\* the third round of tool calls has been executed
C3_Witness ==
    /\ orch.toolCallCount = maxToolCalls
    /\ orch.pc = "failed"
    /\ Len(orch.messages) = 2 + 2 * maxToolCalls

SplicedAnswer == [orch.validated EXCEPT !.citations = SpliceCitations(@, orch.repairReply.items)]

\* C4: when the spliced citation list fails re-validation, answerIssue
\* returns the Answer with its original citation list and succeeds.
C4_FailedRevalidationKeepsOriginal ==
    (/\ orch.pc \in {"done", "failed"}
     /\ orch.repairReply.kind = "array"
     /\ ~SchemaOK(SplicedAnswer)) =>
        (orch.pc = "done" /\ orch.result = orch.validated)

\* C5: when the citation-repair call throws, returns empty content or
\* returns text with no parseable array, answerIssue returns the original
\* validated Answer; no failure of the repair request reaches the caller.
C5_RepairFailureKeepsOriginal ==
    (/\ orch.pc \in {"done", "failed"}
     /\ orch.repairReply.kind \in {"throws", "nocontent", "noarray", "badarray"}) =>
        (orch.pc = "done" /\ orch.result = orch.validated)

---------------------------------------------------------------------------
(* Claims about the rate limiter (checked under SpecRL).                   *)

\* C6: for every identity, after any sequence of consume and
\* getRemainingTokens calls at non-decreasing times, the stored bucket has
\* 0 <= tokens <= maxTokens and getRemainingTokens returns a value in
\* [0, maxTokens].
C6_TokensInRange ==
    \A ip \in Identities :
        /\ buckets[ip] # NoBucket =>
              /\ buckets[ip].tokens >= 0
              /\ buckets[ip].tokens <= maxTokens * TokenUnit
        /\ getRemainingTokens(buckets, ip, now) >= 0
        /\ getRemainingTokens(buckets, ip, now) <= maxTokens * TokenUnit

\* a bucket that was refilled to the cap while it held a fraction of a token
C6_Witness ==
    \E ip \in Identities :
        /\ buckets[ip] # NoBucket
        /\ buckets[ip].tokens = (maxTokens - 1) * TokenUnit
        /\ consumeObs[ip].runCount = 1
        /\ ~consumeObs[ip].runNew
        /\ now > buckets[ip].lastRefill

\* C7: for an identity not seen before, maxTokens consume calls with no time
\* elapsing each return true and the (maxTokens+1)-th returns false.
C7_BurstOfNewIdentity ==
    \A ip \in Identities :
        (consumeObs[ip].runNew /\ consumeObs[ip].runSpan = "instant") =>
            (consumeObs[ip].ok <=> consumeObs[ip].runCount <= maxTokens)

\* the (maxTokens+1)-th back-to-back call of a new identity was made
C7_Witness ==
    \E ip \in Identities :
        /\ consumeObs[ip].runNew
        /\ consumeObs[ip].runSpan = "instant"
        /\ consumeObs[ip].runCount = maxTokens + 1
        /\ ~consumeObs[ip].ok

C9_FullAfterIdleWindow ==
    \A ip \in Identities :
        /\ (buckets[ip] # NoBucket /\ now - buckets[ip].lastRefill >= refillInterval)
              => getRemainingTokens(buckets, ip, now) = maxTokens * TokenUnit
        /\ consumeObs[ip].idle => consumeObs[ip].ok

\* a consume admitted after an idle window on a bucket that had been drained
C9_Witness ==
    \E ip \in Identities :
        /\ consumeObs[ip].idle
        /\ consumeObs[ip].low
        /\ consumeObs[ip].ok
        /\ buckets[ip].tokens = (maxTokens - 1) * TokenUnit

---------------------------------------------------------------------------
(* Claims about the cache (checked under SpecCache).                       *)

\* C10: after any sequence of LRUCache get and set calls, size() never
\* exceeds the configured capacity.
C10_SizeWithinCapacity == lruSize(cache) <= capacity

\* a set of a key that was absent from a full cache
C10_Witness ==
    /\ cacheObs.op = "set"
    /\ cacheObs.sizeBefore = capacity
    /\ ~cacheObs.hadKey
    /\ lruSize(cache) = capacity

\* C11: get(key) never returns a value whose age now - timestamp is strictly
\* greater than ttl: it then removes the entry and returns undefined; an
\* entry whose age is ttl or less is returned as a hit.
C11_GetNeverReturnsExpired ==
    [][(now' = now /\ cacheObs'.op = "get" /\ HasKey(cache, cacheObs'.key)) =>
          LET k == cacheObs'.key
              e == EntryOf(cache, k)
          IN  IF now - e.timestamp > ttl
              THEN cacheObs'.value = NoValue /\ ~HasKey(cache', k)
              ELSE cacheObs'.value = e.value /\ cacheObs'.value # NoValue]_vars

\* a get found its key in the map, returned undefined and removed the entry
C11_Witness ==
    /\ cacheObs.op = "get"
    /\ cacheObs.hadKey
    /\ cacheObs.value = NoValue
    /\ ~HasKey(cache, cacheObs.key)

\* the key touched longest ago among the keys ks, in the recency order q
LeastRecentlyTouched(q, ks) ==
    q[CHOOSE i \in 1..Len(q) : q[i] \in ks /\ \A j \in 1..(i - 1) : q[j] \notin ks]

\* C12: a set of a key that is not present, on a cache holding exactly
\* capacity entries, removes exactly one entry, the least recently touched
\* one (a touch is a set or a get that hits), and leaves capacity entries.
C12_EvictsLeastRecentlyTouched ==
    [][(now' = now /\ cacheObs'.op = "set" /\ ~HasKey(cache, cacheObs'.key)
            /\ lruSize(cache) = capacity) =>
          /\ Len(cache') = capacity
          /\ KeysOf(cache) \ KeysOf(cache') =
                {LeastRecentlyTouched(cacheObs.touched, KeysOf(cache))}
          /\ KeysOf(cache') \ KeysOf(cache) = {cacheObs'.key}]_vars

\* a set evicted an entry although an entry inserted before it is still held
C12_Witness ==
    /\ cacheObs.op = "set"
    /\ ~cacheObs.hadKey
    /\ cacheObs.sizeBefore = capacity
    /\ Len(cache) = capacity
    /\ cache[Len(cache)].key = cacheObs.key
    /\ cache[1].timestamp < now

\* C13: set(key, v) on a key already present leaves size() unchanged,
\* removes no other key even at full capacity, and leaves key as the single
\* most recently used entry, holding v with a fresh timestamp.
C13_ResetKeepsOthers ==
    [][(now' = now /\ cacheObs'.op = "set" /\ HasKey(cache, cacheObs'.key)) =>
          /\ Len(cache') = Len(cache)
          /\ KeysOf(cache') = KeysOf(cache)
          /\ cache'[Len(cache')] = [key |-> cacheObs'.key,
                                    value |-> cacheObs'.value,
                                    timestamp |-> now]
          /\ Cardinality({i \in 1..Len(cache') :
                            cache'[i].key = cacheObs'.key}) = 1]_vars

\* a key of a full cache was set again
C13_Witness ==
    /\ cacheObs.op = "set"
    /\ cacheObs.hadKey
    /\ cacheObs.sizeBefore = capacity
    /\ lruSize(cache) = capacity
    /\ cache[Len(cache)].key = cacheObs.key

---------------------------------------------------------------------------
(* Claims about cache hits in the handler (checked under SpecHit).         *)

---------------------------------------------------------------------------
(* Claims about the tool rounds of answerIssue (checked under SpecOrch).   *)

\* C15: every function tool call of an assistant turn (its arguments
\* unparseable, its tool throwing, or its name not a declared tool included)
\* gets exactly one tool-result message carrying its id before the next
\* model call, and answerIssue is not aborted by it (it fails after a tool
\* round only when the round budget is used up).
C15_EveryToolCallAnswered ==
    [][(orch.pc = "tools" /\ orch.pending # <<>>
            /\ Head(orch.pending).kind # "nonfunction") =>
          LET tc == Head(orch.pending)
              after == IF orch'.pc = "tools" THEN orch'.toolResults
                       ELSE orch'.messages
          IN  /\ Cardinality({n \in 1..Len(after) :
                      after[n].role = "tool" /\ after[n].id = tc.id}) = 1
              /\ orch'.pc = "failed" => orch'.toolCallCount = maxToolCalls]_vars

---------------------------------------------------------------------------
(* Claims about the responses of the handler (checked under Spec).         *)

\* C16: every request that POST handles logs exactly one telemetry record,
\* whatever its outcome: MISS, HIT, 429, 400 or 500.
C16_OneTelemetryRecord ==
    lastDone.status # 0 => lastDone.telemetry = 1

\* C17: when answerIssue fails, for whatever reason, the response is the
\* same fixed generic error: status 500, body { error: 'Internal server
\* error' }, no headers; nothing in it depends on the reason.
C17_OrchestrationFailureIsGeneric ==
    lastDone.cause \in OrchErrors =>
        /\ lastDone.status = 500
        /\ lastDone.body = <<"error", "Internal server error">>
        /\ lastDone.headers = {}
        /\ lastDone.xcache = "none"

\* a request whose answer failed the schema was answered, after one that
\* was served
C17_Witness ==
    /\ lastDone.cause = "schema"
    /\ lastDone.status = 500
    /\ lastDone.orchCalls = 1
    /\ cache # <<>>

\* the error class of a response, in the taxonomy of the error design
ErrorClass(d) ==
    IF d.status = 429 THEN "Admission"
    ELSE IF d.cause \in {"ZodError", "SyntaxError"} THEN "Input"
    ELSE IF d.cause = "no valid json" THEN "Extraction"
    ELSE IF d.cause \in {"clamp", "schema", "final validation"} THEN "Schema"
    ELSE "Other"

\* C18: every error response belongs to one of the classes Admission,
\* Input, Extraction, Schema (no budget exhaustion or model call failure
\* reaches the caller), and error responses of two different classes differ
\* in status or body.
C18_FourDistinctErrorShapes ==
    [][/\ lastDone'.status >= 400 => ErrorClass(lastDone') # "Other"
       /\ (/\ lastDone.status >= 400
           /\ lastDone'.status >= 400
           /\ ErrorClass(lastDone) # ErrorClass(lastDone')) =>
              <<lastDone.status, lastDone.body>>
                  # <<lastDone'.status, lastDone'.body>>]_vars

\* C19: every admitted request whose body is not a valid payload (a body
\* that is not JSON included) is answered 400 with the offending fields,
\* and reads no cache entry and calls no answerIssue.
C19_InvalidPayloadIsClientError ==
    lastDone.cause \in {"ZodError", "SyntaxError"} =>
        /\ lastDone.status = 400
        /\ lastDone.body = <<"error", "Invalid request data", "details">>
        /\ lastDone.orchCalls = 0
        /\ lastDone.cacheReads = 0
        /\ lastDone.cacheWrites = 0

\* C20: every successful response, HIT or MISS, carries the X-Cache header
\* with what happened and the X-RateLimit-Remaining header.
C20_SuccessCarriesBothHeaders ==
    lastDone.status = 200 =>
        /\ "X-Cache" \in lastDone.headers
        /\ lastDone.xcache = (IF lastDone.orchCalls = 0 THEN "HIT" ELSE "MISS")
        /\ "X-RateLimit-Remaining" \in lastDone.headers

---------------------------------------------------------------------------
(* Claims about clamping and extraction in answerIssue (under SpecOrch).   *)

\* C21: the clamp-then-validate step accepts every parsed payload that the
\* schema alone accepts, a payload that omits prereqs, decision_tree,
\* diagrams or warnings included: it fails neither in clampAnswer nor in
\* the validation that follows it.
C21_ClampAcceptsWhatSchemaAccepts ==
    (orch.pc # "idle" /\ SchemaOK(orch.parsed)) =>
        orch.error \notin {"clamp", "schema"}

\* C22: for every schema-valid answer A, the extraction yields A itself
\* from A's JSON in a fenced block, from A's JSON between prose, and from
\* A's JSON with one key left unquoted.
C22_ThreeFormsExtractSameAnswer ==
    (/\ orch.finalText.form = "json"
     /\ SchemaOK(orch.finalText.payload)
     /\ orch.finalText.layout.extraSpaces = 0) =>
        /\ orch.error # "no valid json"
        /\ orch.parsed = orch.finalText.payload

---------------------------------------------------------------------------
(* Claims about the pure helpers (checked under SpecFn).                   *)

\* the last two labels of a hostname in lower case, or the one label it has
LastTwoLabels(host) ==
    IF Len(host) = 1 THEN <<toLowerCase(host[1])>>
    ELSE <<toLowerCase(host[Len(host) - 1]), toLowerCase(host[Len(host)])>>

\* C23: distinctDomainsOK(citations) is true exactly when there are at least
\* two citations and two of the parseable URLs differ in the last two labels
\* of the lower-cased hostname; two subdomains of one registrable domain
\* give false, and so do one valid and one unparseable URL.
C23_DistinctDomainsExactly ==
    fnObs.fn = "distinctDomainsOK" =>
        LET cs == fnObs.arg
            ok == {i \in 1..Len(cs) : cs[i].url.valid}
        IN  /\ fnObs.out <=>
                 /\ Len(cs) >= 2
                 /\ \E i, j \in ok :
                       LastTwoLabels(cs[i].url.host) # LastTwoLabels(cs[j].url.host)
            /\ (/\ Len(cs) = 2
                /\ cs[1].url = Url(<<"support", "example", "com">>)
                /\ cs[2].url = Url(<<"Docs", "EXAMPLE", "com">>)) => ~fnObs.out
            /\ (Len(cs) = 2 /\ Cardinality(ok) = 1) => ~fnObs.out

\* two subdomains of one registrable domain, one written in upper case, were
\* given and the answer was false; so was it for one valid URL beside an
\* unparseable one in another call
C23_Witness ==
    /\ fnObs.fn = "distinctDomainsOK"
    /\ Len(fnObs.arg) = 3
    /\ fnObs.arg[1].url = Url(<<"support", "example", "com">>)
    /\ fnObs.arg[2].url = Url(<<"Docs", "EXAMPLE", "com">>)
    /\ fnObs.arg[3].url = BadUrl
    /\ ~fnObs.out

\* a string of length c is the prefix of at most n characters of a string of
\* length s (the strings of one field are the prefixes of one text)
IsPrefixOfAtMost(c, s, n) == c = (IF s <= n THEN s ELSE n)

IsPrefixEach(cq, sq, n) ==
    Len(cq) = Len(sq) /\ \A i \in 1..Len(sq) : IsPrefixOfAtMost(cq[i], sq[i], n)

\* C24: clampAnswer(a) holds, for each bounded string of a, its prefix of at
\* most the bound and leaves all else as it was; an answer within all
\* bounds is returned equal; clampAnswer(clampAnswer(a)) = clampAnswer(a).
C24_ClampIsPrefixAndIdempotent ==
    fnObs.fn = "clampAnswer" =>
        LET a == fnObs.arg
            c == fnObs.out[1]
        IN  /\ IsPrefixOfAtMost(c.answer_title, a.answer_title, 200)
            /\ IsPrefixOfAtMost(c.one_paragraph_summary, a.one_paragraph_summary, 1000)
            /\ IsPrefixEach(c.prereqs, a.prereqs, 300)
            /\ IsPrefixEach(c.warnings, a.warnings, 300)
            /\ Len(c.steps) = Len(a.steps)
            /\ \A i \in 1..Len(a.steps) :
                  /\ IsPrefixOfAtMost(c.steps[i].title, a.steps[i].title, 150)
                  /\ IsPrefixOfAtMost(c.steps[i].detail, a.steps[i].detail, 800)
                  /\ IsPrefixEach(c.steps[i].shell, a.steps[i].shell, 200)
                  /\ c.steps[i].os = a.steps[i].os
                  /\ c.steps[i].est_minutes = a.steps[i].est_minutes
            /\ Len(c.decision_tree) = Len(a.decision_tree)
            /\ \A i \in 1..Len(a.decision_tree) :
                  /\ IsPrefixOfAtMost(c.decision_tree[i].if, a.decision_tree[i].if, 200)
                  /\ IsPrefixOfAtMost(c.decision_tree[i].then,
                                      a.decision_tree[i].then, 300)
                  /\ c.decision_tree[i].link_step = a.decision_tree[i].link_step
            /\ Len(c.diagrams) = Len(a.diagrams)
            /\ \A i \in 1..Len(a.diagrams) :
                  /\ IsPrefixOfAtMost(c.diagrams[i].caption, a.diagrams[i].caption, 200)
                  /\ IsPrefixOfAtMost(c.diagrams[i].svg.len, a.diagrams[i].svg.len,
                                      10000)
            /\ Len(c.citations) = Len(a.citations)
            /\ \A i \in 1..Len(a.citations) :
                  /\ IsPrefixOfAtMost(c.citations[i].title, a.citations[i].title, 200)
                  /\ IsPrefixOfAtMost(c.citations[i].quote, a.citations[i].quote, 180)
                  /\ c.citations[i].url = a.citations[i].url
            /\ WithinBounds(a) => c = a
            /\ fnObs.out[2] = c

\* clampAnswer was given the answer with every bounded string over its bound
\* and returned a different answer, which a second clampAnswer left alone
C24_Witness ==
    /\ fnObs.fn = "clampAnswer"
    /\ fnObs.arg = LongAnswer
    /\ fnObs.out[1] # fnObs.arg
    /\ WithinBounds(fnObs.out[1])
    /\ fnObs.out[2] = fnObs.out[1]

\* C25 as stated: for every url and every upstream outcome, fetch_page
\* returns without raising a result whose clean_text has at most 40000
\* characters and whose headings list has at most 20 entries.
C25_TextAtMost40000 ==
    fnObs.fn = "fetch_page" =>
        /\ ~fnObs.out.raised
        /\ fnObs.out.clean_text <= 40000
        /\ Len(fnObs.out.headings) <= 20

\* C25 amended: for every url and every upstream outcome, fetch_page returns
\* without raising a result whose headings list has at most 20 entries and
\* whose clean_text is, on success, at most 40003 characters (the page text,
\* or its first 40000 characters followed by '...'), and on any failure the
\* failure message: 66 characters and the url.
C25_TextAtMost40003OrFailureMessage ==
    fnObs.fn = "fetch_page" =>
        LET up == fnObs.arg.upstream
            text == up.body.len - up.body.extra
        IN  /\ ~fnObs.out.raised
            /\ Len(fnObs.out.headings) <= 20
            /\ up.kind = "success" =>
                  /\ fnObs.out.clean_text <= 40003
                  /\ fnObs.out.clean_text =
                        (IF text <= 40000 THEN text ELSE 40000 + 3)
            /\ up.kind # "success" =>
                  /\ fnObs.out.clean_text = 66 + fnObs.arg.url
                  /\ fnObs.out.headings = <<>>

\* a page of more than 40000 characters of text and 25 headings was fetched:
\* the text returned is 40003 characters long and 20 headings are kept
C25_Witness ==
    /\ fnObs.fn = "fetch_page"
    /\ fnObs.arg.upstream.kind = "success"
    /\ fnObs.arg.upstream.body.len - fnObs.arg.upstream.body.extra > 40000
    /\ Len(fnObs.arg.upstream.elements) = 25
    /\ fnObs.out.clean_text = 40003
    /\ Len(fnObs.out.headings) = 20

\* C27: the cache key is a function of the validated triple (issue, os,
\* device) alone, written in that order, and two requests get the same key
\* if and only if their triples are equal.
C27_KeyDeterministicAndInjective ==
    fnObs.fn = "cacheKey" =>
        /\ SubSeq(fnObs.out, 1, 10) =
              <<"{", DQ, "i", "s", "s", "u", "e", DQ, ":", DQ>>
        /\ Len(fnObs.prev) = 1 =>
              ((fnObs.out = fnObs.prev[1].out) <=> (fnObs.arg = fnObs.prev[1].arg))

\* two triples that differ only in where the text between issue and device
\* stands (inside the issue of one, inside the device of the other) got
\* different keys
C27_Witness ==
    /\ fnObs.fn = "cacheKey"
    /\ Len(fnObs.prev) = 1
    /\ fnObs.arg.issue = IssueWithSeparator
    /\ fnObs.arg.device = <<"c">>
    /\ fnObs.prev[1].arg.issue = <<"a">>
    /\ fnObs.prev[1].arg.device = DeviceWithSeparator
    /\ fnObs.arg.os = fnObs.prev[1].arg.os
    /\ fnObs.out # fnObs.prev[1].out

---------------------------------------------------------------------------
(* Claims about admission with requests in flight (checked under Spec).    *)

\* the requests that a step admits: they leave the limiter towards the body
NewlyAdmitted == {s \in Slots : reqs[s].pc = "idle" /\ reqs'[s].pc # "idle"}

\* what the bucket of ip holds at time t, the refill since its last update
\* counted in, before anything is taken
HeldAndRefilled(ip, t) ==
    LET b == BucketOrNew(buckets, ip, t)
        sum == b.tokens + (t - b.lastRefill) * maxTokens
    IN  IF sum > maxTokens * TokenUnit THEN maxTokens * TokenUnit ELSE sum

\* C26: with requests of one identity in flight and interleaved at their
\* suspension points, every step that writes the identity's bucket admits at
\* most one request and stores exactly what the bucket held, plus the
\* refill, minus one token for the admission; the stored amount is never
\* negative, so no token is consumed twice.
C26_BucketUpdateAtomic ==
    [][\A ip \in Callers :
          LET admitted == {s \in NewlyAdmitted : reqs'[s].ip = ip}
          IN  /\ Cardinality(admitted) <= 1
              /\ admitted # {} => HeldAndRefilled(ip, now) >= TokenUnit
              /\ buckets'[ip] # buckets[ip] =>
                    /\ buckets'[ip].tokens =
                          HeldAndRefilled(ip, now) - TokenUnit * Cardinality(admitted)
                    /\ buckets'[ip].tokens >= 0
                    /\ buckets'[ip].lastRefill = now]_vars

\* two requests of one identity are in flight at once, both admitted, and
\* the bucket holds two tokens less than the full amount
C26_Witness ==
    /\ \A s \in Slots : reqs[s].pc # "idle" /\ reqs[s].ip = "ip1" /\ reqs[s].admitted
    /\ now = 0
    /\ buckets["ip1"].tokens = (maxTokens - 2) * TokenUnit

---------------------------------------------------------------------------
(* Claims about polling the rate limiter (checked under SpecPoll).         *)

\* C28: after a denied consume at time t, a consume of the same identity at
\* any time >= t + 60 seconds returns true when none of the identity's calls
\* in between was admitted, however many of them were denied.
C28_AdmittedAMinuteAfterDenial ==
    (/\ fnObs.fn = "consume"
     /\ Len(fnObs.prev) = 1
     /\ fnObs.arg >= fnObs.prev[1] + PollTicksPerMinute) => fnObs.out.ok

---------------------------------------------------------------------------
(* Claims about the conversation of answerIssue (checked under SpecOrch).  *)

\* the number of assistant messages among the first k messages
RECURSIVE AssistantsUpTo(_, _)
AssistantsUpTo(msgs, k) ==
    IF k = 0 THEN 0
    ELSE AssistantsUpTo(msgs, k - 1) + (IF msgs[k].role = "assistant" THEN 1 ELSE 0)

\* system, user, then round after round: the assistant message with the
\* tool calls of round r, then tool results of round r only, in the order
\* of the calls they answer
ConversationInOrder(msgs) ==
    /\ Len(msgs) >= 2
    /\ msgs[1].role = "system"
    /\ msgs[2].role = "user"
    /\ \A k \in 3..Len(msgs) :
          LET r == AssistantsUpTo(msgs, k)
          IN  \/ /\ msgs[k].role = "assistant"
                 /\ msgs[k].calls # <<>>
                 /\ \A i \in 1..Len(msgs[k].calls) : msgs[k].calls[i] = <<r, i>>
              \/ /\ msgs[k].role = "tool"
                 /\ r >= 1
                 /\ msgs[k].id[1] = r
                 /\ msgs[k - 1].role = "tool" => msgs[k - 1].id[2] < msgs[k].id[2]
                 /\ \E j \in 3..(k - 1) :
                       /\ msgs[j].role = "assistant"
                       /\ AssistantsUpTo(msgs, j) = r
                       /\ \E i \in 1..Len(msgs[j].calls) : msgs[j].calls[i] = msgs[k].id

\* C29: whenever a model call of the tool loop is issued, the messages it is
\* given are system, user, then for each completed round the assistant
\* message followed by the tool results of that round in tool-call order,
\* and no tool call of the previous round is still pending.
C29_OrderedAndJoined ==
    [][orch'.modelCalls > orch.modelCalls =>
          /\ orch'.pc = "drafting"
          /\ ConversationInOrder(orch'.messages)
          /\ AssistantsUpTo(orch'.messages, Len(orch'.messages)) = orch'.toolCallCount
          /\ orch'.pending = <<>>
          /\ orch'.toolResults = <<>>
          /\ orch.pc = "tools" => Len(orch.pending) = 1]_vars

\* the second model call is in flight after a round of two tool calls: their
\* two results follow the assistant message in the order of the calls
C29_Witness ==
    /\ orch.pc = "drafting"
    /\ orch.modelCalls = 2
    /\ Len(orch.messages) = 5
    /\ Len(orch.messages[3].calls) = 2
    /\ orch.messages[4].id = <<1, 1>>
    /\ orch.messages[5].id = <<1, 2>>

\* the direct answer is empty, holds no JSON, fails both parses, or its
\* clamped payload fails the schema (a payload that clampAnswer cannot read
\* included)
PrimaryAnswerUnusable(text) ==
    \/ text.form \in {"empty", "nojson", "broken"}
    \/ text.form = "json" /\ ~ParseOK(text)
    \/ /\ text.form = "json"
       /\ ParseOK(text)
       /\ \/ ClampThrows(ParsedResponse(text))
          \/ ~SchemaOK(clampAnswer(ParsedResponse(text)))

\* C30: when the model's direct answer is empty, holds no extractable JSON,
\* fails both parse attempts, or its clamped payload fails schema
\* validation, answerIssue fails in the step that receives it: no further
\* model call is issued, the citation-repair call is not made, and no
\* Answer is returned, then or later.
C30_UnusableAnswerFailsAtOnce ==
    [][/\ (orch.pc = "drafting" /\ orch'.finalText # orch.finalText
              /\ PrimaryAnswerUnusable(orch'.finalText)) =>
             /\ orch'.pc = "failed"
             /\ orch'.error \in {"no final response", "no valid json", "clamp", "schema"}
             /\ orch'.modelCalls = orch.modelCalls
             /\ orch'.repairCalls = 0
             /\ orch'.result = NoPayload
       /\ orch.pc = "failed" => orch' = orch]_vars

\* a direct answer arrived whose payload is parsed but fails the schema after
\* the clamp (too few citations), and answerIssue has failed with one model
\* call made and no repair call
C30_Witness ==
    /\ orch.pc = "failed"
    /\ orch.error = "schema"
    /\ orch.finalText.form = "json"
    /\ Len(orch.parsed.citations) = 1
    /\ orch.modelCalls = 1
    /\ orch.repairCalls = 0
    /\ orch.result = NoPayload

---------------------------------------------------------------------------
(* Claims about the citation repair of answerIssue (under SpecOrch).       *)

\* C31: the citation-repair call is issued in exactly those steps in which a
\* primary answer arrives that passes the schema after the clamp and whose
\* citations fail distinctDomainsOK; it is issued at most once, declares no
\* tools, and one call of answerIssue makes at most 4 model calls in all.
C31_RepairIffValidButNotDistinct ==
    [][/\ (orch'.repairCalls > orch.repairCalls) <=>
              /\ orch.pc = "drafting"
              /\ orch'.finalText # orch.finalText
              /\ ~PrimaryAnswerUnusable(orch'.finalText)
              /\ ~distinctDomainsOK(
                     clampAnswer(ParsedResponse(orch'.finalText)).citations)
       /\ orch'.repairCalls <= 1
       /\ orch'.modelCalls + orch'.repairCalls <= 4
       /\ orch'.pc = "repair" => ~orch'.tools
       /\ orch'.pc = "drafting" => orch'.tools]_vars

\* the repair call is in flight as the fourth model call of the orchestration
C31_Witness ==
    /\ orch.pc = "repair"
    /\ orch.modelCalls = 3
    /\ orch.repairCalls = 1
    /\ ~orch.tools
    /\ SchemaOK(orch.validated)
    /\ ~distinctDomainsOK(orch.validated.citations)

\* C32: when the repair reply holds a parseable array N and the
\* re-validation succeeds, the citations returned are the first 2 original
\* citations followed by the first min(3, |N|) elements of N: between 2 and
\* 5 in number, the original citations at positions 3 to 5 dropped even when
\* N is empty.
C32_SpliceIsTwoPlusUpToThree ==
    (orch.pc = "done" /\ orch.repairReply.kind = "array") =>
        LET N == orch.repairReply.items
            orig == orch.validated.citations
            k == IF Len(N) < 3 THEN Len(N) ELSE 3
            got == orch.result.citations
        IN  /\ Len(got) = 2 + k
            /\ Len(got) \in 2..5
            /\ got[1] = orig[1]
            /\ got[2] = orig[2]
            /\ \A i \in 1..k : got[2 + i] = N[i]

\* five original citations and an empty array: two citations are returned
C32_Witness ==
    /\ orch.pc = "done"
    /\ orch.repairReply.kind = "array"
    /\ orch.repairReply.items = <<>>
    /\ Len(orch.validated.citations) = 5
    /\ Len(orch.result.citations) = 2

\* C33: the step in which the repair reply arrives ends the orchestration:
\* no further model call is issued, and when the answer at hand meets the
\* schema it is returned whether or not its citations now come from two
\* registrable domains (distinctDomainsOK is not asked again).
C33_RepairIsBestEffort ==
    [][orch.pc = "repair" =>
          /\ orch'.pc \in {"done", "failed"}
          /\ orch'.repairCalls = 1
          /\ orch'.modelCalls = orch.modelCalls
          /\ LET rep == orch'.repairReply
                 a == IF rep.kind = "array"
                      THEN [orch.validated EXCEPT
                              !.citations = SubSeq(@, 1, 2)
                                  \o SubSeq(rep.items, 1,
                                            IF Len(rep.items) < 3
                                            THEN Len(rep.items) ELSE 3)]
                      ELSE orch.validated
             IN  (rep.kind # "throws" /\ SchemaOK(a)) =>
                    orch'.pc = "done" /\ orch'.result = a]_vars

\* after the repair round an answer was returned whose citations all share
\* one registrable domain
C33_Witness ==
    /\ orch.pc = "done"
    /\ orch.repairCalls = 1
    /\ orch.repairReply.kind = "array"
    /\ Len(orch.repairReply.items) >= 1
    /\ ~distinctDomainsOK(orch.result.citations)
    /\ \A i, j \in 1..Len(orch.result.citations) :
          RegistrableDomain(orch.result.citations[i].url)
              = RegistrableDomain(orch.result.citations[j].url)

---------------------------------------------------------------------------
(* Claims about the cache writes of the handler (checked under Spec).      *)

\* C34: an entry enters the cache, or an entry of the cache changes, only in
\* the step in which answerIssue returns to a request: the entry is stored
\* under that request's key, its value is the answer the request sends with
\* its 200 MISS response, and a request that ends with 429, 400 or 500 has
\* written nothing.
C34_CacheWrittenOnlyOnSuccess ==
    [][/\ \A i \in 1..Len(cache') :
            LET e == cache'[i]
            IN  (~HasKey(cache, e.key) \/ EntryOf(cache, e.key) # e) =>
                   \E s \in Slots :
                      /\ reqs[s].pc = "orchestrating"
                      /\ reqs'[s].pc = "idle"
                      /\ e.key = cacheKeyOf(reqs[s].body.payload)
                      /\ e.timestamp = now
                      /\ lastDone'.status = 200
                      /\ lastDone'.xcache = "MISS"
                      /\ lastDone'.orchCalls = 1
                      /\ lastDone'.cacheWrites = 1
                      /\ lastDone'.body = <<"answer", e.value>>
       /\ lastDone'.status \in {429, 400, 500} =>
            /\ lastDone'.cacheWrites = 0
            /\ \A i \in 1..Len(cache') :
                  /\ HasKey(cache, cache'[i].key)
                  /\ EntryOf(cache, cache'[i].key) = cache'[i]]_vars

\* answerIssue threw for a request while the cache held an answer: the
\* request ended with 500 and the entry is as it was stored
C34_Witness ==
    /\ lastDone.status = 500
    /\ lastDone.orchCalls = 1
    /\ lastDone.cacheWrites = 0
    /\ Len(cache) = 1
    /\ cache[1].value \in AnswerIds

---------------------------------------------------------------------------
(* Claims about getRemainingTokens (checked under SpecRL) and about the    *)
(* admissions of an interval (checked under SpecWindow).                   *)

\* C35: the buckets change only by a consume call, so an identity that is
\* only ever read with getRemainingTokens has no bucket; and a consume call
\* returns true exactly when getRemainingTokens read at least one token at
\* that instant just before the call, after which getRemainingTokens reads
\* one token less (after a denial it reads the same value).
C35_GetRemainingTokensAgreesWithConsume ==
    [][/\ buckets' # buckets =>
             \E ip \in Callers :
                buckets' = [buckets EXCEPT
                               ![ip] = consume(buckets, ip, now).bucket]
       /\ \A ip \in Identities \ Callers : buckets'[ip] = NoBucket
       /\ \A ip \in Callers :
             (buckets'[ip] # buckets[ip] \/ consumeObs'[ip] # consumeObs[ip]) =>
                LET before == getRemainingTokens(buckets, ip, now)
                    after == getRemainingTokens(buckets', ip, now')
                IN  /\ now' = now
                    /\ consumeObs'[ip].ok <=> before >= TokenUnit
                    /\ consumeObs'[ip].ok => after = before - TokenUnit
                    /\ ~consumeObs'[ip].ok => after = before]_vars

\* a consume call was admitted on tokens that the refill had just added:
\* the bucket stored before the call held under one token
C35_Witness ==
    /\ consumeObs["ip1"].ok
    /\ consumeObs["ip1"].low
    /\ buckets["ip1"].lastRefill = now
    /\ getRemainingTokens(buckets, "ip1", now) < TokenUnit
    /\ buckets["ip2"] = NoBucket


\* C36: the consume calls of an identity admitted in an interval of length
\* T, wherever it starts and whatever calls came before it, number at most
\* maxTokens + floor(T * maxTokens / refillInterval).
C36_AdmissionsOfInterval ==
    \A ip \in Callers :
        Watching(fnObs, ip) =>
            fnObs.out <= maxTokens
                + ((now - fnObs.arg[2]) * maxTokens) \div refillInterval

\* an interval that starts after earlier calls of the identity, lasts a
\* minute or more, and in which the bound is met
C36_Witness ==
    /\ Watching(fnObs, "ip1")
    /\ fnObs.arg[2] > 0
    /\ now - fnObs.arg[2] >= TicksPerMinute
    /\ buckets["ip1"].lastRefill = now
    /\ fnObs.out = maxTokens
          + ((now - fnObs.arg[2]) * maxTokens) \div refillInterval

---------------------------------------------------------------------------
(* Claims about the order of the limiter, the parse and the cache lookup   *)
(* in the handler (checked under Spec).                                    *)

\* C37: the step in which a request arrives asks the limiter and nothing
\* else: it takes one token of the identity and lets the request on to its
\* body, or, when the bucket holds under one token, ends the request with
\* 429 without reading the cache, whatever the cache holds.  The parse and
\* the cache lookup come in a later step that leaves the bucket alone, so a
\* request answered 400 or answered from the cache has paid its token.
C37_TokenTakenBeforeParseAndLookup ==
    [][/\ \A s \in Slots :
            /\ reqs[s].pc = "idle" /\ reqs'[s].pc # "idle" =>
                  /\ reqs'[s].pc = "parsing"
                  /\ reqs'[s].cacheReads = 0
                  /\ cache' = cache
                  /\ HeldAndRefilled(reqs'[s].ip, now) >= TokenUnit
                  /\ buckets'[reqs'[s].ip].tokens =
                        HeldAndRefilled(reqs'[s].ip, now) - TokenUnit
            /\ reqs[s].pc = "parsing" /\ reqs'[s] # reqs[s] =>
                  /\ reqs[s].admitted
                  /\ buckets' = buckets
       /\ (\A s \in Slots : reqs[s].pc = "idle" /\ reqs'[s].pc = "idle")
          /\ buckets' # buckets =>
                /\ \E ip \in Callers : HeldAndRefilled(ip, now) < TokenUnit
                /\ lastDone'.status = 429
                /\ lastDone'.cacheReads = 0
                /\ cache' = cache
       /\ lastDone'.xcache = "HIT" \/ lastDone'.status = 400 =>
                lastDone'.admitted]_vars

\* a request was denied with 429 while the cache held a live answer for the
\* one payload that the requests carry
C37_Witness ==
    /\ lastDone.status = 429
    /\ ~lastDone.admitted
    /\ buckets["ip1"].tokens < TokenUnit
    /\ Len(cache) = 1
    /\ ~Expired(cache[1], now)
    /\ \A b \in Bodies : b.kind = "valid" => cache[1].key = cacheKeyOf(b.payload)


\* C38: no two requests with the same (issue, os, device) are awaiting
\* answerIssue at the same time.
C38_OneOrchestrationPerFingerprint ==
    \A s1, s2 \in Slots :
        (/\ s1 # s2
         /\ reqs[s1].pc = "orchestrating"
         /\ reqs[s2].pc = "orchestrating") =>
            cacheKeyOf(reqs[s1].body.payload) # cacheKeyOf(reqs[s2].body.payload)

---------------------------------------------------------------------------
(* Claims about the timestamp of a cache entry (checked under SpecCache).  *)

\* C39: a get that returns a value moves the entry to the most recent
\* position and changes nothing else: the entry keeps its value and its
\* timestamp, and the other entries keep their order.  The timestamp of an
\* entry is the time of the set that stored it, so the value that a get
\* returns was stored by a set at most ttl earlier, whatever hits came in
\* between.
C39_HitKeepsTimestamp ==
    [][/\ (now' = now /\ cacheObs'.op = "get" /\ cacheObs'.value # NoValue) =>
             LET k == cacheObs'.key
                 e == EntryOf(cache, k)
             IN  /\ HasKey(cache, k)
                 /\ cacheObs'.value = e.value
                 /\ now - e.timestamp <= ttl
                 /\ cache' = Append(DeleteKey(cache, k), e)
                 /\ EntryOf(cache', k).timestamp = e.timestamp
       /\ \A i \in 1..Len(cache') :
             LET e == cache'[i]
             IN  (\/ ~HasKey(cache, e.key)
                  \/ EntryOf(cache, e.key).timestamp # e.timestamp) =>
                    /\ cacheObs'.op = "set"
                    /\ cacheObs'.key = e.key
                    /\ e.timestamp = now
                    /\ now' = now]_vars

\* a get returned an entry stored exactly ttl ago and moved it behind an
\* entry stored later
C39_Witness ==
    /\ cacheObs.op = "get"
    /\ cacheObs.value # NoValue
    /\ Len(cache) = 2
    /\ cache[2].key = cacheObs.key
    /\ now - cache[2].timestamp = ttl
    /\ cache[1].timestamp > cache[2].timestamp

---------------------------------------------------------------------------
(* Claims about the retryAfter of a denial (checked under SpecRetry).      *)

\* C40: a request that an identity sends retryAfter seconds after its
\* request that was denied with that retryAfter, with no request of the
\* identity in between, is admitted.
C40_RetryAfterIsSufficient ==
    (/\ fnObs.fn = "post"
     /\ Len(fnObs.prev) = 1
     /\ ~fnObs.prev[1].ok
     /\ fnObs.out.at * MsPerTick
           = fnObs.prev[1].at * MsPerTick + fnObs.prev[1].retryAfter * 1000)
        => fnObs.out.ok

===========================================================================
